---- MODULE Spec2Model ----
(***************************************************************************)
(* Model of the shared computational core of the electronics calculators   *)
(* (src/src/common.js): standard-value rounding (roundToE24, roundCap) and *)
(* the Sallen-Key filter designer (butterworthFilter, chebyshevFilter).    *)
(*                                                                         *)
(* JavaScript numbers are modelled as decimal floating point values        *)
(* [m |-> mantissa, e |-> exponent] standing for m * 10^e, kept in         *)
(* canonical form (no trailing zero in m; zero is [m |-> 0, e |-> 0]).     *)
(* Products, sums and differences of short decimals are exact; quotients   *)
(* and library functions are rounded to Prec significant digits.           *)
(***************************************************************************)
EXTENDS Integers, Naturals, Sequences, FiniteSets, TLC

VARIABLES fn, value, rounded, design, stages, sch, plot, output, renders

vars == <<fn, value, rounded, design, stages, sch, plot, output, renders>>

(* ------------------------------ bounds --------------------------------- *)

\* significant digits kept by a rounded arithmetic result
Prec == 4
\* resistances passed to roundToE24 have mantissas -MaxNeg..MaxMant
MaxMant == 999
MaxNeg == 3
\* decimal exponents of the values passed to roundToE24: MinExp..MaxExp
MaxExp == 1
\* highest filter order requested
MaxOrder == 8
\* wires, junction nodes and labels added to a schematic
MaxWires == 2
MaxNodes == 1
MaxLabels == 1
\* curves, reference lines of each kind, bars and consecutive renders of a plot
MaxCurves == 2
MaxLines == 1
MaxBars == 2
MaxRenders == 2
\* samples asked of generateResponseCurve
MaxPoints == 3

(* --------------------------- decimal numbers --------------------------- *)

RECURSIVE Pow10(_)
Pow10(n) == IF n <= 0 THEN 1 ELSE 10 * Pow10(n - 1)

Abs(n) == IF n < 0 THEN -n ELSE n

Sign(n) == IF n < 0 THEN -1 ELSE IF n > 0 THEN 1 ELSE 0

\* number of decimal digits of a natural number (0 has none)
RECURSIVE NumDigits(_)
NumDigits(n) == IF n <= 0 THEN 0 ELSE 1 + NumDigits(n \div 10)

\* drop trailing zeros of the mantissa
RECURSIVE Canon(_, _)
Canon(m, e) ==
    IF m = 0 THEN [m |-> 0, e |-> 0]
    ELSE IF m % 10 = 0 THEN Canon(m \div 10, e + 1)
    ELSE [m |-> m, e |-> e]

\* m * 10^e with the digits below cut rounded off (half away from zero);
\* e is the exponent of the digits kept
RoundCut(m, e, cut) ==
    Canon(Sign(m) * ((Abs(m) + cut \div 2) \div cut), e)

\* nearest value with at most p significant digits
RoundTo(m, e, p) ==
    IF NumDigits(Abs(m)) <= p THEN Canon(m, e)
    ELSE RoundCut(m, e + NumDigits(Abs(m)) - p, Pow10(NumDigits(Abs(m)) - p))

\* an exact decimal literal
Dec(m, e) == Canon(m, e)

\* an arithmetic result, rounded to the working precision
Mk(m, e) == RoundTo(m, e, Prec)

Zero == [m |-> 0, e |-> 0]
One == [m |-> 1, e |-> 0]
Two == [m |-> 2, e |-> 0]
Three == [m |-> 3, e |-> 0]
Ten == [m |-> 1, e |-> 1]

\* the result of dividing a positive number by zero
Infinity == [m |-> 1, e |-> 400]

IsInf(a) == a.e >= 400

\* a finite result rounded to the working precision
Rounded(a) == IF IsInf(a) THEN a ELSE Mk(a.m, a.e)

\* order of magnitude: 10^(Mag(a)-1) <= |a| < 10^Mag(a)
Mag(a) == NumDigits(Abs(a.m)) + a.e

\* mantissa of a at exponent t (digits below 10^t are cut off)
At(a, t) ==
    IF a.m = 0 THEN 0
    ELSE IF a.e >= t THEN a.m * Pow10(a.e - t)
    ELSE Sign(a.m) * (Abs(a.m) \div Pow10(t - a.e))

\* order of magnitude of a, or of b when a is zero
MagOr(a, b) == IF a.m = 0 THEN Mag(b) ELSE Mag(a)

\* common exponent at which the larger of a and b has eight digits
Align(a, b) ==
    (IF MagOr(a, b) > MagOr(b, a) THEN MagOr(a, b) ELSE MagOr(b, a)) - 8

Neg(a) == [m |-> -a.m, e |-> a.e]

\* the sum of a and b taken at exponent t
SumAt(a, b, t) == Canon(At(a, t) + At(b, t), t)

\* a + b, exact when eight digits hold the sum
AddX(a, b) ==
    IF IsInf(a) THEN a
    ELSE IF IsInf(b) THEN b
    ELSE SumAt(a, b, Align(a, b))

SubX(a, b) == AddX(a, Neg(b))

Add(a, b) == Rounded(AddX(a, b))

Sub(a, b) == Add(a, Neg(b))

Less(a, b) == SubX(a, b).m < 0

Leq(a, b) == ~Less(b, a)

AbsD(a) == [m |-> Abs(a.m), e |-> a.e]

\* a * b, exact for the short decimals of the value series
MulX(a, b) ==
    IF IsInf(a) \/ IsInf(b) THEN Infinity
    ELSE Canon(a.m * b.m, a.e + b.e)

\* a with its mantissa cut to at most d digits
Cut(a, d) ==
    IF NumDigits(Abs(a.m)) <= d THEN a
    ELSE [m |-> At(a, a.e + NumDigits(Abs(a.m)) - d),
          e |-> a.e + NumDigits(Abs(a.m)) - d]

\* the product of a and b, a cut so that the mantissas' product has at most
\* nine digits
MulCut(a, b) == MulX(Cut(a, 9 - NumDigits(Abs(b.m))), b)

\* a * b rounded
Mul(a, b) ==
    IF IsInf(a) \/ IsInf(b) THEN Infinity
    ELSE Rounded(MulCut(a, Cut(b, 5)))

\* the quotient of a and b with the numerator widened by k digits
DivWide(a, b, k) ==
    Mk(Sign(a.m) * Sign(b.m) * ((Abs(a.m) * Pow10(k)) \div Abs(b.m)),
       a.e - k - b.e)

\* a / b: exact when the mantissas divide, else the numerator is widened to
\* nine digits before the division and the quotient rounded
Div(a, b) ==
    IF b.m = 0 THEN Infinity
    ELSE IF IsInf(b) \/ a.m = 0 THEN Zero
    ELSE IF Abs(a.m) % Abs(b.m) = 0
    THEN Canon(Sign(a.m) * Sign(b.m) * (Abs(a.m) \div Abs(b.m)), a.e - b.e)
    ELSE DivWide(a, b, 9 - NumDigits(Abs(a.m)))

\* Math.floor(Math.log10(value)) for value > 0
FloorLog10(a) == Mag(a) - 1

\* Math.pow(10, n) for an integer n
PowTen(n) == [m |-> 1, e |-> n]

(* --------------------------- library functions ------------------------- *)

\* Math.PI
Pi == Mk(314159265, -8)

\* integer square root by Newton's iteration from above: x is the current
\* estimate and y the next one
RECURSIVE ISqrt(_, _, _)
ISqrt(n, x, y) ==
    IF y >= x THEN x ELSE ISqrt(n, y, (y + n \div y) \div 2)

\* the square root of a with its mantissa widened by k digits
SqrtWide(a, k) ==
    Mk(ISqrt(a.m * Pow10(k), Pow10(5), (Pow10(5) + (a.m * Pow10(k)) \div Pow10(5)) \div 2),
       (a.e - k) \div 2)

\* Math.sqrt for a >= 0: the mantissa is widened to eight or nine digits
\* at an even exponent
Sqrt(a) ==
    IF a.m = 0 THEN Zero
    ELSE IF IsInf(a) THEN Infinity
    ELSE IF (a.e - (8 - NumDigits(a.m))) % 2 = 0
    THEN SqrtWide(a, 8 - NumDigits(a.m))
    ELSE SqrtWide(a, 9 - NumDigits(a.m))

\* sum of a power series: term is the last term added to sum, and the next
\* term is term * x2 / den(n), with den(n) = n for step 1 and (n-1)*n for
\* step 2; the sum ends when a term no longer changes it
RECURSIVE SeriesAdd(_, _, _, _, _)
SeriesAdd(x2, step, n, term, sum) ==
    IF Add(sum, term) = sum THEN sum
    ELSE SeriesAdd(x2, step, n + step,
                   Div(Mul(term, x2),
                       Dec(IF step = 1 THEN n + step
                           ELSE (n + step - 1) * (n + step), 0)),
                   Add(sum, term))

Series(x2, step, n, term, sum) ==
    SeriesAdd(x2, step, n,
              Div(Mul(term, x2), Dec(IF step = 1 THEN n ELSE (n - 1) * n, 0)),
              sum)

\* Math.exp
Exp(x) ==
    IF x.m < 0 THEN Div(One, Series(Neg(x), 1, 1, One, One))
    ELSE Series(x, 1, 1, One, One)

\* Math.sin and Math.cos (Taylor series; arguments lie in [0, pi])
Sin(x) == Series(Neg(Mul(x, x)), 2, 3, x, x)

Cos(x) == Series(Neg(Mul(x, x)), 2, 2, One, One)

\* Math.sinh and Math.cosh
Sinh(x) == Series(Mul(x, x), 2, 3, x, x)

Cosh(x) == Series(Mul(x, x), 2, 2, One, One)

\* sum of z^n/n over odd n, the series of atanh: pow is z^n, not yet added
RECURSIVE AtanhSeries(_, _, _, _)
AtanhSeries(z2, n, pow, sum) ==
    IF Add(sum, Div(pow, Dec(n, 0))) = sum THEN sum
    ELSE AtanhSeries(z2, n + 2, Mul(pow, z2), Add(sum, Div(pow, Dec(n, 0))))

\* 2 * atanh(z)
TwoAtanh(z) == Mul(Two, AtanhSeries(Mul(z, z), 3, Mul(z, Mul(z, z)), z))

\* Math.log for y > 0
Ln(y) == TwoAtanh(Div(Sub(y, One), Add(y, One)))

\* Math.asinh
Asinh(y) ==
    IF IsInf(y) THEN Infinity
    ELSE Ln(Add(y, Sqrt(Add(Mul(y, y), One))))

\* Math.pow(10, x) for a real x
Pow10R(x) == Exp(Mul(x, Ln(Ten)))

(* ------------------------- preferred-value series ---------------------- *)

\* E24 resistor series (24 values per decade)
E24 ==
    << Dec(10, -1), Dec(11, -1), Dec(12, -1), Dec(13, -1), Dec(15, -1),
       Dec(16, -1), Dec(18, -1), Dec(20, -1), Dec(22, -1), Dec(24, -1),
       Dec(27, -1), Dec(30, -1), Dec(33, -1), Dec(36, -1), Dec(39, -1),
       Dec(43, -1), Dec(47, -1), Dec(51, -1), Dec(56, -1), Dec(62, -1),
       Dec(68, -1), Dec(75, -1), Dec(82, -1), Dec(91, -1) >>

\* Common capacitor values (E6-ish with extras)
CAPS ==
    << Dec(10, -1), Dec(15, -1), Dec(22, -1), Dec(33, -1), Dec(47, -1),
       Dec(68, -1), Dec(10, 0), Dec(15, 0), Dec(22, 0), Dec(33, 0),
       Dec(47, 0), Dec(68, 0), Dec(100, 0), Dec(150, 0), Dec(220, 0),
       Dec(330, 0), Dec(470, 0), Dec(680, 0), Dec(1000, 0) >>

(* ---------------------------- binary arithmetic -------------------------- *)
(* A JavaScript number is an IEEE 754 binary64 value.  The decimal model     *)
(* above is exact where the program's operands and results are far from a    *)
(* rounding boundary; two distances that are equal as decimals are compared  *)
(* by the program on their binary64 values, which this section computes.     *)
(* A natural number is the sequence of its digits in base 2^15, lowest       *)
(* first, and a positive binary64 value is sig * 2^exp with a 53-bit sig.    *)

Limb == 32768

\* the digits of a natural number
RECURSIVE Limbs(_)
Limbs(n) == IF n = 0 THEN << >> ELSE << n % Limb >> \o Limbs(n \div Limb)

\* a digit sequence without its leading zeros
RECURSIVE Trim(_)
Trim(a) ==
    IF a # << >> /\ a[Len(a)] = 0 THEN Trim(SubSeq(a, 1, Len(a) - 1)) ELSE a

LimbAt(a, i) == IF i <= Len(a) THEN a[i] ELSE 0

RECURSIVE AddLimbs(_, _, _, _)
AddLimbs(a, b, i, carry) ==
    IF i > Len(a) /\ i > Len(b)
    THEN IF carry = 1 THEN << 1 >> ELSE << >>
    ELSE << (LimbAt(a, i) + LimbAt(b, i) + carry) % Limb >>
         \o AddLimbs(a, b, i + 1,
                     (LimbAt(a, i) + LimbAt(b, i) + carry) \div Limb)

BigAdd(a, b) == AddLimbs(a, b, 1, 0)

RECURSIVE SubLimbs(_, _, _, _)
SubLimbs(a, b, i, borrow) ==
    IF i > Len(a) THEN << >>
    ELSE << (a[i] - LimbAt(b, i) - borrow + Limb) % Limb >>
         \o SubLimbs(a, b, i + 1,
                     IF a[i] - LimbAt(b, i) - borrow < 0 THEN 1 ELSE 0)

\* a - b for a >= b
BigSub(a, b) == Trim(SubLimbs(a, b, 1, 0))

RECURSIVE LessFrom(_, _, _)
LessFrom(a, b, i) ==
    IF i = 0 THEN FALSE
    ELSE IF a[i] # b[i] THEN a[i] < b[i]
    ELSE LessFrom(a, b, i - 1)

BigLess(a, b) ==
    IF Len(a) # Len(b) THEN Len(a) < Len(b) ELSE LessFrom(a, b, Len(a))

\* a * k for k < 2^15
RECURSIVE MulSmall(_, _, _, _)
MulSmall(a, k, i, carry) ==
    IF i > Len(a) THEN IF carry > 0 THEN << carry >> ELSE << >>
    ELSE << (a[i] * k + carry) % Limb >>
         \o MulSmall(a, k, i + 1, (a[i] * k + carry) \div Limb)

\* a \div k for k < 2^15, from digit i down with the remainder r so far
RECURSIVE DivSmall(_, _, _, _)
DivSmall(a, k, i, r) ==
    IF i = 0 THEN << >>
    ELSE DivSmall(a, k, i - 1, (r * Limb + a[i]) % k)
         \o << (r * Limb + a[i]) \div k >>

\* a * 2^n
Shl(a, n) ==
    IF a = << >> \/ n <= 0 THEN a
    ELSE [i \in 1..(n \div 15) |-> 0] \o MulSmall(a, 2^(n % 15), 1, 0)

\* the number of bits of a
BitLen(a) ==
    IF a = << >> THEN 0
    ELSE 15 * (Len(a) - 1)
         + CHOOSE k \in 1..15 : 2^(k - 1) <= a[Len(a)] /\ a[Len(a)] < 2^k

\* bit i of a, the lowest being bit 1
BitAt(a, i) == (a[(i - 1) \div 15 + 1] \div 2^((i - 1) % 15)) % 2

\* a * 10^n
RECURSIVE TimesTen(_, _)
TimesTen(a, n) == IF n = 0 THEN a ELSE TimesTen(MulSmall(a, 10, 1, 0), n - 1)

\* one step of the long division by den: r is twice the remainder plus the
\* next bit of the dividend, q twice the quotient
DivBit(r, den, q) ==
    IF BigLess(r, den) THEN [q |-> q, rem |-> r]
    ELSE [q |-> BigAdd(q, << 1 >>), rem |-> BigSub(r, den)]

\* the step of the long division of num by den at bit i of num
DivStep(num, den, i, st) ==
    DivBit(BigAdd(MulSmall(st.rem, 2, 1, 0), Limbs(BitAt(num, i))), den,
           MulSmall(st.q, 2, 1, 0))

\* n steps of the long division from bit i down (a quotient has at most 56
\* bits, four digits)
RECURSIVE DivSteps(_, _, _, _, _)
DivSteps(num, den, i, n, st) ==
    IF Len(st.q) > 4 \/ n = 0 THEN st
    ELSE DivSteps(num, den, i - 1, n - 1, DivStep(num, den, i, st))

\* the long division from bit i down, sixteen bits at a time: quotient and
\* remainder
RECURSIVE DivFrom(_, _, _, _)
DivFrom(num, den, i, st) ==
    IF i = 0 THEN st
    ELSE IF i < 16 THEN DivSteps(num, den, i, i, st)
    ELSE DivFrom(num, den, i - 16, DivSteps(num, den, i, 16, st))

\* a binary64 value times 2^e
Scaled(r, e) == [sig |-> r.sig, exp |-> r.exp + e]

\* sum * 2^e for a sum of 53 bits, or of 54 after a carry out of the top bit
Carried(sum, e) ==
    IF Len(sum) = 4 /\ sum[4] >= 256
    THEN [sig |-> << 0, 0, 0, 128 >>, exp |-> e + 1]
    ELSE [sig |-> sum, exp |-> e]

\* the 53 kept bits of a quotient, rounded up or not
RoundKept(kept, up, e) ==
    IF up THEN Carried(BigAdd(kept, << 1 >>), e) ELSE [sig |-> kept, exp |-> e]

\* a quotient q of 53 + drop bits with its remainder, rounded to 53 bits to
\* nearest, ties to even; scale is the power of two the dividend was
\* multiplied by
RoundSig(q, rem, drop, scale) ==
    RoundKept(Trim(DivSmall(q, 2^drop, Len(q), 0)),
              /\ (q[1] \div 2^(drop - 1)) % 2 = 1
              /\ \/ rem # << >>
                 \/ q[1] % 2^(drop - 1) # 0
                 \/ (q[1] \div 2^drop) % 2 = 1,
              drop - scale)

RoundQuotient(qr, scale) == RoundSig(qr.q, qr.rem, BitLen(qr.q) - 53, scale)

\* n / d rounded, for a quotient of 55 or 56 bits
Divide(n, d, scale) ==
    RoundQuotient(DivFrom(n, d, BitLen(n), [q |-> << >>, rem |-> << >>]),
                  scale)

\* the quotient of num * 2^scale by den, rounded
Quotient(num, den, scale) == Divide(Shl(num, scale), Shl(den, -scale), scale)

\* the binary64 value nearest to num / den, both positive
Nearest(num, den) == Quotient(num, den, 55 - (BitLen(num) - BitLen(den)))

B64Zero == [sig |-> << >>, exp |-> 0]

\* the binary64 value of a decimal literal
B64(d) ==
    IF d.m <= 0 THEN B64Zero
    ELSE Nearest(TimesTen(Limbs(d.m), IF d.e > 0 THEN d.e ELSE 0),
                 TimesTen(<< 1 >>, IF d.e < 0 THEN -d.e ELSE 0))

\* x / y
B64Div(x, y) == Scaled(Nearest(x.sig, y.sig), x.exp - y.exp)

\* a * b from digit j of b on
RECURSIVE MulFrom(_, _, _)
MulFrom(a, b, j) ==
    IF j > Len(b) THEN << >>
    ELSE BigAdd(MulSmall(a, b[j], 1, 0), << 0 >> \o MulFrom(a, b, j + 1))

BigMul(a, b) == Trim(MulFrom(a, b, 1))

\* x * y
B64Mul(x, y) == Scaled(Nearest(BigMul(x.sig, y.sig), << 1 >>), x.exp + y.exp)

B64MinExp(x, y) == IF x.exp < y.exp THEN x.exp ELSE y.exp

\* x < y
B64Less(x, y) ==
    BigLess(Shl(x.sig, x.exp - B64MinExp(x, y)),
            Shl(y.sig, y.exp - B64MinExp(x, y)))

\* |a - b| * 2^e
AbsDiff(a, b, e) ==
    IF a = b THEN B64Zero
    ELSE Scaled(Nearest(IF BigLess(a, b) THEN BigSub(b, a) ELSE BigSub(a, b),
                        << 1 >>),
                e)

\* Math.abs(x - y)
B64Dist(x, y) ==
    AbsDiff(Shl(x.sig, x.exp - B64MinExp(x, y)),
            Shl(y.sig, y.exp - B64MinExp(x, y)), B64MinExp(x, y))

\* the distances of n64 from the candidates c and closest: the first less
\* than the second
TieLess(dist, c, closest) == B64Less(dist[c], dist[closest])

\* diff < minDiff, for the distances of the normalized value from the
\* candidates c and closest: distances that differ as decimals differ by far
\* more than a rounding error of the binary arithmetic, and distances that
\* are equal as decimals are compared on their binary64 values, n64 being
\* the binary64 value of normalized as the program computes it
DiffLess(normalized, n64, c, closest) ==
    IF Less(AbsD(SubX(normalized, c)), AbsD(SubX(normalized, closest)))
    THEN TRUE
    ELSE IF c = closest
            \/ Less(AbsD(SubX(normalized, closest)), AbsD(SubX(normalized, c)))
    THEN FALSE
    ELSE TieLess([k \in {c, closest} |-> B64Dist(n64, B64(k))], c, closest)

\* value / decade of roundToE24 as a binary64 value
Normalized64(v) == B64Div(B64(v), B64(PowTen(FloorLog10(v))))

\* the search loop of roundToE24 from entry i on: the best candidate so far
RECURSIVE ScanE24(_, _, _, _)
ScanE24(normalized, n64, i, closest) ==
    IF i > Len(E24) THEN closest
    ELSE IF DiffLess(normalized, n64, E24[i], closest)
    THEN ScanE24(normalized, n64, i + 1, E24[i])
    ELSE ScanE24(normalized, n64, i + 1, closest)

\* roundToE24 returning the series entry without scaling it to the decade
roundToE24_unscaled(v) ==
    IF Leq(v, Zero) THEN Zero
    ELSE LET decade     == PowTen(FloorLog10(v))
             normalized == Div(v, decade)
             best       == ScanE24(normalized, Normalized64(v), 1, E24[1])
         IN  IF DiffLess(normalized, Normalized64(v), Ten, best)
             THEN Ten
             ELSE best

\* roundToE24 that never compares with the next decade's first value
roundToE24_sameDecade(v) ==
    IF Leq(v, Zero) THEN Zero
    ELSE LET decade     == PowTen(FloorLog10(v))
             normalized == Div(v, decade)
             best       == ScanE24(normalized, Normalized64(v), 1, E24[1])
         IN  MulX(best, decade)

\* roundToE24 whose guard lets negative values through
roundToE24_zeroOnly(v) ==
    IF v = Zero THEN Zero
    ELSE LET decade     == PowTen(FloorLog10(v))
             normalized == Div(v, decade)
             best       == ScanE24(normalized, Normalized64(v), 1, E24[1])
         IN  IF DiffLess(normalized, Normalized64(v), Ten, best)
             THEN MulX(Ten, decade)
             ELSE MulX(best, decade)

\* Round to nearest E24 resistor value
roundToE24(v) ==
    IF Leq(v, Zero) THEN Zero
    ELSE LET decade     == PowTen(FloorLog10(v))
             normalized == Div(v, decade)
             best       == ScanE24(normalized, Normalized64(v), 1, E24[1])
         IN  IF DiffLess(normalized, Normalized64(v), Ten, best)
             THEN MulX(Ten, decade)
             ELSE MulX(best, decade)

\* pf / decade of roundCap as a binary64 value
NormalizedCap64(v) ==
    B64Div(B64Mul(B64(v), B64(Dec(1, 12))),
           B64(PowTen(FloorLog10(MulX(v, Dec(1, 12))))))

\* the search loop of roundCap from entry i on
RECURSIVE ScanCaps(_, _, _, _)
ScanCaps(normalized, n64, i, closest) ==
    IF i > Len(CAPS) THEN closest
    ELSE IF Less(Ten, CAPS[i])
    THEN ScanCaps(normalized, n64, i + 1, closest)
    ELSE IF DiffLess(normalized, n64, CAPS[i], closest)
    THEN ScanCaps(normalized, n64, i + 1, CAPS[i])
    ELSE ScanCaps(normalized, n64, i + 1, closest)

\* roundCap returning picofarads: the conversion back to farads is missing
roundCap_picofarads(v) ==
    IF Leq(v, Zero) THEN Zero
    ELSE LET pf         == MulX(v, Dec(1, 12))
             decade     == PowTen(FloorLog10(pf))
             normalized == Div(pf, decade)
             best       == ScanCaps(normalized, NormalizedCap64(v), 1, CAPS[1])
             closest    == IF DiffLess(normalized, NormalizedCap64(v), Ten,
                                       best)
                           THEN Ten ELSE best
         IN  MulX(closest, decade)

\* Round to nearest standard capacitor value
roundCap(v) ==
    IF Leq(v, Zero) THEN Zero
    ELSE LET pf         == MulX(v, Dec(1, 12))
             decade     == PowTen(FloorLog10(pf))
             normalized == Div(pf, decade)
             best       == ScanCaps(normalized, NormalizedCap64(v), 1, CAPS[1])
             closest    == IF DiffLess(normalized, NormalizedCap64(v), Ten,
                                       best)
                           THEN Ten ELSE best
         IN  MulX(MulX(closest, decade), Dec(1, -12))

(* ------------------------------ filter design -------------------------- *)

\* a result that is either null or an array
Null == [null |-> TRUE, items |-> << >>]

Arr(list) == [null |-> FALSE, items |-> list]

\* Butterworth Q values for cascaded 2nd-order stages
BUTTERWORTH_Q ==
    [o \in {2, 4, 6, 8} |->
        CASE o = 2 -> << Dec(7071, -4) >>
          [] o = 4 -> << Dec(5412, -4), Dec(13065, -4) >>
          [] o = 6 -> << Dec(5176, -4), Dec(7071, -4), Dec(19319, -4) >>
          [] o = 8 -> << Dec(5098, -4), Dec(6013, -4), Dec(8999, -4),
                         Dec(25628, -4) >>]

\* s with x inserted before the first element of larger Q (after equal ones)
RECURSIVE InsertByQ(_, _)
InsertByQ(s, x) ==
    IF s = << >> THEN << x >>
    ELSE IF Less(x.Q, Head(s).Q) THEN << x >> \o s
    ELSE << Head(s) >> \o InsertByQ(Tail(s), x)

\* the sections left in pole-angle order
SortByQ_unsorted(s) == s

\* stages.sort((a, b) => a.Q - b.Q): ascending by Q, stable
RECURSIVE SortByQ(_)
SortByQ(s) ==
    IF s = << >> THEN << >>
    ELSE InsertByQ(SortByQ(SubSeq(s, 1, Len(s) - 1)), s[Len(s)])

\* the pole of index k (1..order) on the Chebyshev ellipse
ChebyshevPole(order, a, k) ==
    LET theta == Div(Mul(Dec(2 * k - 1, 0), Pi), Dec(2 * order, 0))
    IN  [sigma |-> Mul(Neg(Sinh(a)), Sin(theta)),
         omega |-> Mul(Cosh(a), Cos(theta))]

\* the 2nd-order section of one pole: natural frequency and Q
PoleStage(pole) ==
    LET w0 == Sqrt(Add(Mul(pole.sigma, pole.sigma),
                       Mul(pole.omega, pole.omega)))
    IN  [Q |-> Div(w0, Mul(Dec(-2, 0), pole.sigma)), w0 |-> w0]

\* one section per conjugate pair and one for the middle pole
NumStages_ceil(order) == (order + 1) \div 2

\* number of 2nd-order sections taken from the poles
NumStages(order) == order \div 2

\* Calculate Chebyshev Type I pole Q values and frequency scaling
chebyshevPoles(order, rippleDb) ==
    LET epsilon == Sqrt(Sub(Pow10R(Div(rippleDb, Ten)), One))
        a       == Div(Asinh(Div(One, epsilon)), Dec(order, 0))
        poles   == [k \in 1..order |-> ChebyshevPole(order, a, k)]
        sections == [i \in 1..NumStages(order) |-> PoleStage(poles[i])]
    IN  SortByQ(sections)

\* chebyshevStage built at the passband edge, not scaled by w0
chebyshevStage_unscaled(fc, stageParams, C) ==
    LET Q        == stageParams.Q
        w0       == stageParams.w0
        R        == Div(One, Mul(Mul(Mul(Two, Pi), fc), C))
        Rround   == roundToE24(R)
        K        == Sub(Three, Div(One, Q))
        Ra       == Dec(10000, 0)
        Rb       == Mul(Sub(K, One), Ra)
        RaRound  == roundToE24(Ra)
        RbRound  == IF Less(Zero, Rb) THEN roundToE24(Rb) ELSE Zero
        Kactual  == IF Less(Zero, RbRound)
                    THEN Add(One, Div(RbRound, RaRound)) ELSE One
        fcActual == Div(One, Mul(Mul(Mul(Two, Pi), Rround), C))
        Qactual  == Div(One, Sub(Three, Kactual))
    IN  [R |-> Rround, C |-> C, K |-> Kactual, Ra |-> RaRound,
         Rb |-> RbRound, fcActual |-> fcActual, Q |-> Qactual,
         targetQ |-> Q, w0 |-> w0]

\* Calculate Chebyshev stage components
chebyshevStage(fc, stageParams, C) ==
    LET Q        == stageParams.Q
        w0       == stageParams.w0
        stageFC  == Mul(fc, w0)
        R        == Div(One, Mul(Mul(Mul(Two, Pi), stageFC), C))
        Rround   == roundToE24(R)
        K        == Sub(Three, Div(One, Q))
        Ra       == Dec(10000, 0)
        Rb       == Mul(Sub(K, One), Ra)
        RaRound  == roundToE24(Ra)
        RbRound  == IF Less(Zero, Rb) THEN roundToE24(Rb) ELSE Zero
        Kactual  == IF Less(Zero, RbRound)
                    THEN Add(One, Div(RbRound, RaRound)) ELSE One
        fcActual == Div(One, Mul(Mul(Mul(Two, Pi), Rround), C))
        Qactual  == Div(One, Sub(Three, Kactual))
    IN  [R |-> Rround, C |-> C, K |-> Kactual, Ra |-> RaRound,
         Rb |-> RbRound, fcActual |-> fcActual, Q |-> Qactual,
         targetQ |-> Q, w0 |-> w0]

\* sallenKeyStage reporting the requested gain and Q
sallenKeyStage_idealK(fc, Q, C) ==
    LET R        == Div(One, Mul(Mul(Mul(Two, Pi), fc), C))
        Rround   == roundToE24(R)
        K        == Sub(Three, Div(One, Q))
        Ra       == Dec(10000, 0)
        Rb       == Mul(Sub(K, One), Ra)
        RaRound  == roundToE24(Ra)
        RbRound  == IF Less(Zero, Rb) THEN roundToE24(Rb) ELSE Zero
        fcActual == Div(One, Mul(Mul(Mul(Two, Pi), Rround), C))
    IN  [R |-> Rround, C |-> C, K |-> K, Ra |-> RaRound,
         Rb |-> RbRound, fcActual |-> fcActual, Q |-> Q]

\* sallenKeyStage reporting the cutoff of the ideal, unrounded resistor
sallenKeyStage_idealR(fc, Q, C) ==
    LET R        == Div(One, Mul(Mul(Mul(Two, Pi), fc), C))
        Rround   == roundToE24(R)
        K        == Sub(Three, Div(One, Q))
        Ra       == Dec(10000, 0)
        Rb       == Mul(Sub(K, One), Ra)
        RaRound  == roundToE24(Ra)
        RbRound  == IF Less(Zero, Rb) THEN roundToE24(Rb) ELSE Zero
        Kactual  == IF Less(Zero, RbRound)
                    THEN Add(One, Div(RbRound, RaRound)) ELSE One
        fcActual == Div(One, Mul(Mul(Mul(Two, Pi), R), C))
        Qactual  == Div(One, Sub(Three, Kactual))
    IN  [R |-> Rround, C |-> C, K |-> Kactual, Ra |-> RaRound,
         Rb |-> RbRound, fcActual |-> fcActual, Q |-> Qactual]

\* Calculate Sallen-Key stage components
sallenKeyStage(fc, Q, C) ==
    LET R        == Div(One, Mul(Mul(Mul(Two, Pi), fc), C))
        Rround   == roundToE24(R)
        K        == Sub(Three, Div(One, Q))
        Ra       == Dec(10000, 0)
        Rb       == Mul(Sub(K, One), Ra)
        RaRound  == roundToE24(Ra)
        RbRound  == IF Less(Zero, Rb) THEN roundToE24(Rb) ELSE Zero
        Kactual  == IF Less(Zero, RbRound)
                    THEN Add(One, Div(RbRound, RaRound)) ELSE One
        fcActual == Div(One, Mul(Mul(Mul(Two, Pi), Rround), C))
        Qactual  == Div(One, Sub(Three, Kactual))
    IN  [R |-> Rround, C |-> C, K |-> Kactual, Ra |-> RaRound,
         Rb |-> RbRound, fcActual |-> fcActual, Q |-> Qactual]

\* r extended with the fields type and stageNum
Tagged(r, type, stageNum) ==
    [f \in DOMAIN r \cup {"type", "stageNum"} |->
        IF f = "type" THEN type
        ELSE IF f = "stageNum" THEN stageNum
        ELSE r[f]]

\* r extended with the field targetQ
WithTargetQ(r, q) ==
    [f \in DOMAIN r \cup {"targetQ"} |-> IF f = "targetQ" THEN q ELSE r[f]]

\* Calculate complete Chebyshev Type I filter
chebyshevFilter(type, order, fc, C, rippleDb) ==
    LET poleData == chebyshevPoles(order, rippleDb)
        \* the stage built from each entry of poleData
        stage    == [p \in { poleData[i] : i \in 1..Len(poleData) } |->
                        chebyshevStage(fc, p, C)]
    IN  Arr([i \in 1..Len(poleData) |-> Tagged(stage[poleData[i]], type, i)])

\* butterworthFilter walking the table from its last entry
butterworthFilter_reversed(type, order, fc, C) ==
    IF order \notin DOMAIN BUTTERWORTH_Q THEN Null
    ELSE LET qValues == BUTTERWORTH_Q[order]
             n       == Len(qValues)
         IN  Arr([i \in 1..n |->
                    WithTargetQ(Tagged(sallenKeyStage(fc, qValues[n + 1 - i], C),
                                       type, i), qValues[n + 1 - i])])

\* butterworthFilter falling back to the 2nd-order table entry
butterworthFilter_fallback(type, order, fc, C) ==
    LET qValues == IF order \in DOMAIN BUTTERWORTH_Q
                   THEN BUTTERWORTH_Q[order] ELSE BUTTERWORTH_Q[2]
    IN  Arr([i \in 1..Len(qValues) |->
                WithTargetQ(Tagged(sallenKeyStage(fc, qValues[i], C),
                                   type, i), qValues[i])])

\* Calculate complete Butterworth filter
butterworthFilter(type, order, fc, C) ==
    IF order \notin DOMAIN BUTTERWORTH_Q THEN Null
    ELSE LET qValues == BUTTERWORTH_Q[order]
         IN  Arr([i \in 1..Len(qValues) |->
                    WithTargetQ(Tagged(sallenKeyStage(fc, qValues[i], C),
                                       type, i), qValues[i])])

(* ------------------------------ schematic ------------------------------ *)

\* the result of a call: the value it returned, or the error it threw
Returned(v) == [threw |-> FALSE, value |-> v]

Thrown(error, what) == [threw |-> TRUE, error |-> error, what |-> what]

\* the result of a chainable call (return this)
This == Returned("this")

\* a number that is not a number (a sum with an undefined operand); it lies
\* outside every coordinate of a diagram
NaN == -999999

\* the names every object literal inherits from Object.prototype; each is
\* bound to a function or an object, so a lookup by such a name is truthy
ObjectPrototype ==
    { "constructor", "toString", "toLocaleString", "valueOf",
      "hasOwnProperty", "isPrototypeOf", "propertyIsEnumerable", "__proto__" }

\* options.name || d for a flag, a number and a string
OrFlag(options, name) == name \in DOMAIN options /\ options[name]

OrNum(options, name, d) ==
    IF name \in DOMAIN options /\ options[name] # 0 THEN options[name] ELSE d

OrStr(options, name, d) ==
    IF name \in DOMAIN options /\ options[name] # "" THEN options[name] ELSE d

\* options.name === undefined
IsUndefined(options, name) == name \notin DOMAIN options

P(x, y) == [x |-> x, y |-> y]

\* Component's constructor followed by the subclass's assignment of pins
Component(class, id, x, y, options, pins) ==
    [class |-> class, id |-> id, x |-> x, y |-> y, options |-> options,
     pins |-> pins]

\* new Comp(id, x, y, options): the constructor of each class sets the pin
\* table of the class (an op-amp a second one for the simulator, with the
\* inputs at 16 instead of 20; an op-amp and a diode put their pins by the
\* flip option); new Object(id, x, y, options) is the wrapper of the id
\* string and has none of a component's fields and methods
New(Comp, id, x, y, options) ==
    CASE Comp = "OpAmp" ->
           [class |-> "OpAmp", id |-> id, x |-> x, y |-> y, options |-> options,
            pins |->
              [plus  |-> P(-40, IF OrFlag(options, "flip") THEN -20 ELSE 20),
               minus |-> P(-40, IF OrFlag(options, "flip") THEN 20 ELSE -20),
               out   |-> P(40, 0),
               vpos  |-> P(0, -30),
               vneg  |-> P(0, 30)],
            falstadPins |->
              [plus  |-> P(-40, IF OrFlag(options, "flip") THEN -16 ELSE 16),
               minus |-> P(-40, IF OrFlag(options, "flip") THEN 16 ELSE -16),
               out   |-> P(40, 0),
               vpos  |-> P(0, -30),
               vneg  |-> P(0, 30)],
            flip |-> OrFlag(options, "flip")]
      [] Comp = "Amplifier" ->
           Component(Comp, id, x, y, options, [in |-> P(-30, 0), out |-> P(30, 0)])
      [] Comp = "ResistorH" ->
           Component(Comp, id, x, y, options, [a |-> P(-25, 0), b |-> P(25, 0)])
      [] Comp = "ResistorV" ->
           Component(Comp, id, x, y, options, [a |-> P(0, -25), b |-> P(0, 25)])
      [] Comp = "CapacitorH" ->
           Component(Comp, id, x, y, options, [a |-> P(-4, 0), b |-> P(4, 0)])
      [] Comp = "CapacitorV" ->
           Component(Comp, id, x, y, options, [a |-> P(0, -4), b |-> P(0, 4)])
      [] Comp = "Ground" ->
           Component(Comp, id, x, y, options, [a |-> P(0, 0)])
      [] Comp = "DiodeH" ->
           [class |-> "DiodeH", id |-> id, x |-> x, y |-> y, options |-> options,
            flip |-> OrFlag(options, "flip"),
            pins |-> IF OrFlag(options, "flip")
                     THEN [a |-> P(15, 0), k |-> P(-15, 0)]
                     ELSE [a |-> P(-15, 0), k |-> P(15, 0)]]
      [] Comp = "DiodeV" ->
           [class |-> "DiodeV", id |-> id, x |-> x, y |-> y, options |-> options,
            flip |-> OrFlag(options, "flip"),
            pins |-> IF OrFlag(options, "flip")
                     THEN [a |-> P(0, 15), k |-> P(0, -15)]
                     ELSE [a |-> P(0, -15), k |-> P(0, 15)]]
      [] Comp = "InductorH" ->
           Component(Comp, id, x, y, options, [a |-> P(-24, 0), b |-> P(24, 0)])
      [] Comp = "InductorV" ->
           Component(Comp, id, x, y, options, [a |-> P(0, -24), b |-> P(0, 24)])
      [] Comp = "NPN" ->
           Component(Comp, id, x, y, options,
                     [base |-> P(-15, 0), collector |-> P(25, -25),
                      emitter |-> P(25, 25)])
      [] Comp = "Power" ->
           Component(Comp, id, x, y, options, [a |-> P(0, 0)])
      [] Comp = "DCSource" ->
           Component(Comp, id, x, y, options, [pos |-> P(0, 0), neg |-> P(0, 50)])
      [] Comp = "ACSource" ->
           Component(Comp, id, x, y, options, [pos |-> P(0, 0), neg |-> P(0, 50)])
      [] Comp = "ACSourceH" ->
           Component(Comp, id, x, y, options, [a |-> P(-25, 0), b |-> P(25, 0)])
      [] Comp = "Probe" ->
           Component(Comp, id, x, y, options, [a |-> P(0, 0)])
      [] Comp = "Object" -> [class |-> "Object", id |-> id]

\* the factory's table: type name to class
COMPONENT_TYPES ==
    ("opamp" :> "OpAmp") @@ ("amplifier" :> "Amplifier") @@
    ("amp" :> "Amplifier") @@ ("buffer" :> "Amplifier") @@
    ("resistor" :> "ResistorH") @@ ("resistor-h" :> "ResistorH") @@
    ("resistor-v" :> "ResistorV") @@ ("capacitor" :> "CapacitorH") @@
    ("capacitor-h" :> "CapacitorH") @@ ("capacitor-v" :> "CapacitorV") @@
    ("inductor" :> "InductorH") @@ ("inductor-h" :> "InductorH") @@
    ("inductor-v" :> "InductorV") @@ ("diode" :> "DiodeH") @@
    ("diode-h" :> "DiodeH") @@ ("diode-v" :> "DiodeV") @@
    ("ground" :> "Ground") @@ ("gnd" :> "Ground") @@
    ("power" :> "Power") @@ ("vcc" :> "Power") @@ ("npn" :> "NPN") @@
    ("dc-source" :> "DCSource") @@ ("dc-source-v" :> "DCSource") @@
    ("ac-source" :> "ACSource") @@ ("ac-source-v" :> "ACSource") @@
    ("ac-source-h" :> "ACSourceH") @@ ("probe" :> "Probe") @@
    ("scope" :> "Probe")

\* COMPONENT_TYPES[type] finds an own entry of the table, or a member of
\* Object.prototype: "constructor" is the class Object, the others cannot be
\* constructed
createComponent(type, id, x, y, options) ==
    IF type \in DOMAIN COMPONENT_TYPES
    THEN Returned(New(COMPONENT_TYPES[type], id, x, y, options))
    ELSE IF type = "constructor"
    THEN Returned(New("Object", id, x, y, options))
    ELSE IF type \in ObjectPrototype
    THEN Thrown("TypeError: Comp is not a constructor", type)
    ELSE Thrown("Unknown component type", type)

\* a Map, as the list of its entries in the order the keys were first set
MapHas(entries, key) == \E i \in DOMAIN entries : entries[i].key = key

MapGet(entries, key) ==
    entries[CHOOSE i \in DOMAIN entries : entries[i].key = key].value

\* Map.set adding a second entry for a key the map already holds
MapSet_append(entries, key, v) == Append(entries, [key |-> key, value |-> v])

MapSet(entries, key, v) ==
    IF MapHas(entries, key)
    THEN [i \in DOMAIN entries |->
             IF entries[i].key = key THEN [key |-> key, value |-> v]
             ELSE entries[i]]
    ELSE Append(entries, [key |-> key, value |-> v])

\* new Schematic(width, height)
Schematic(width, height) ==
    [width |-> width, height |-> height, components |-> << >>,
     wires |-> << >>, nodes |-> << >>, labels |-> << >>,
     falstadOptions |-> [vMax |-> 24]]

\* the schematic after place(type, id, x, y, options); a throw of the
\* factory leaves it as it was
place(s, type, id, x, y, options) ==
    IF createComponent(type, id, x, y, options).threw THEN s
    ELSE [s EXCEPT !.components =
             MapSet(@, id, createComponent(type, id, x, y, options).value)]

\* wire resolving both ends when it is called: a wire with an end that does
\* not resolve yet is not kept
wire_resolved(s, from, to, options) ==
    IF ("parts" \in DOMAIN from /\ ~MapHas(s.components, from.parts[1]))
       \/ ("parts" \in DOMAIN to /\ ~MapHas(s.components, to.parts[1]))
    THEN s
    ELSE [s EXCEPT !.wires = Append(@, [from |-> from, to |-> to,
                                        options |-> options])]

\* wire(from, to, options): the ends are kept as given, unresolved
wire(s, from, to, options) ==
    [s EXCEPT !.wires = Append(@, [from |-> from, to |-> to,
                                   options |-> options])]

node(s, x, y) == [s EXCEPT !.nodes = Append(@, P(x, y))]

\* { text, x, y, ...options }: the options are spread last
label(s, text, x, y, options) ==
    [s EXCEPT !.labels =
        Append(@, options @@ [text |-> text, x |-> x, y |-> y])]

\* a pin reference in text, "componentId.pinName", is held as the list of
\* its parts between the dots; a coordinate object is a record of x and y
Ref(parts) == [parts |-> parts]

IsObject(ref) == "parts" \notin DOMAIN ref

\* const [compId, pinName] = ref.split('.')
Part(ref, i) == IF i <= Len(ref.parts) THEN ref.parts[i] ELSE "undefined"

\* pin with the component's position left out of the sum
pin_offsetOnly(s, ref) ==
    IF IsObject(ref) THEN Returned(ref)
    ELSE IF ~MapHas(s.components, Part(ref, 1))
    THEN Thrown("Component not found", Part(ref, 1))
    ELSE IF Part(ref, 2) \in DOMAIN MapGet(s.components, Part(ref, 1)).pins
    THEN Returned(MapGet(s.components, Part(ref, 1)).pins[Part(ref, 2)])
    ELSE Thrown("Pin not found", Part(ref, 2))

pin(s, ref) ==
    IF IsObject(ref) THEN Returned(ref)
    ELSE IF ~MapHas(s.components, Part(ref, 1))
    THEN Thrown("Component not found", Part(ref, 1))
    ELSE LET comp == MapGet(s.components, Part(ref, 1))
             pinName == Part(ref, 2)
         IN  IF "pins" \notin DOMAIN comp
             THEN Thrown("TypeError: cannot read properties of undefined",
                         pinName)
             ELSE IF pinName \in DOMAIN comp.pins
             THEN Returned(P(comp.x + comp.pins[pinName].x,
                             comp.y + comp.pins[pinName].y))
             ELSE IF pinName \in ObjectPrototype
             THEN Returned(P(NaN, NaN))
             ELSE Thrown("Pin not found", pinName)

\* falstadPin reading the diagram's table of every component
falstadPin_diagramTable(s, ref) ==
    IF IsObject(ref) THEN Returned(ref)
    ELSE IF ~MapHas(s.components, Part(ref, 1))
    THEN Thrown("Component not found", Part(ref, 1))
    ELSE IF Part(ref, 2) \in DOMAIN MapGet(s.components, Part(ref, 1)).pins
    THEN Returned(P(MapGet(s.components, Part(ref, 1)).x
                      + MapGet(s.components, Part(ref, 1)).pins[Part(ref, 2)].x,
                    MapGet(s.components, Part(ref, 1)).y
                      + MapGet(s.components, Part(ref, 1)).pins[Part(ref, 2)].y))
    ELSE Thrown("Pin not found", Part(ref, 2))

falstadPin(s, ref) ==
    IF IsObject(ref) THEN Returned(ref)
    ELSE IF ~MapHas(s.components, Part(ref, 1))
    THEN Thrown("Component not found", Part(ref, 1))
    ELSE LET comp == MapGet(s.components, Part(ref, 1))
             pinName == Part(ref, 2)
         IN  IF "falstadPins" \notin DOMAIN comp /\ "pins" \notin DOMAIN comp
             THEN Thrown("TypeError: cannot read properties of undefined",
                         pinName)
             ELSE LET pins == IF "falstadPins" \in DOMAIN comp
                              THEN comp.falstadPins ELSE comp.pins
                  IN  IF pinName \in DOMAIN pins
                      THEN Returned(P(comp.x + pins[pinName].x,
                                      comp.y + pins[pinName].y))
                      ELSE IF pinName \in ObjectPrototype
                      THEN Returned(P(NaN, NaN))
                      ELSE Thrown("Pin not found", pinName)

\* elements of the SVG text: a shape with the numbers written into it, and a
\* text with its anchor, its words and the number written among them (0 when
\* there is none)
Shape(tag, at, dashed) == [tag |-> tag, at |-> at, dashed |-> dashed]

Text(x, y, anchor, text, n) ==
    [tag |-> "text", at |-> <<x, y>>, anchor |-> anchor, text |-> text,
     n |-> n]

\* the text of a label placed right of a part, or left of it
SideLabel(x, y, options, d, text) ==
    IF OrStr(options, "labelPos", "right") = "right"
    THEN Text(x + d, y + 5, "start", text, 0)
    ELSE Text(x - d, y + 5, "end", text, 0)

\* comp.render(); an instance of Object has no such method
render(comp) ==
    LET x == comp.x
        y == comp.y
        options == comp.options
        caption == OrStr(options, "label", comp.id)
    IN
    CASE comp.class = "OpAmp" ->
           << Shape("polygon", <<x - 40, y - 40, x - 40, y + 40, x + 40, y>>, FALSE),
              Text(x - 30, y + (IF comp.flip THEN 28 ELSE -12), "start", "-", 0),
              Text(x - 30, y + (IF comp.flip THEN -12 ELSE 28), "start", "+", 0) >>
           \o (IF OrNum(options, "vcc", 0) # 0
               THEN << Shape("line", <<x, y - 30, x, y - 45>>, FALSE),
                       Text(x + 5, y - 48, "start", "+V", options.vcc),
                       Shape("line", <<x, y + 30, x, y + 45>>, FALSE),
                       Text(x + 5, y + 55, "start", "-V", options.vcc) >>
               ELSE << >>)
      [] comp.class = "Amplifier" ->
           << Shape("polygon", <<x - 30, y - 25, x - 30, y + 25, x + 30, y>>, FALSE) >>
           \o (IF OrStr(options, "label", "") # ""
               THEN << Text(x - 20, y + 5, "start", options.label, 0) >>
               ELSE << >>)
      [] comp.class = "ResistorH" ->
           << Shape("rect", <<x - 25, y - 10, 50, 20>>, FALSE),
              Text(x, y - 15, "middle", caption, 0) >>
      [] comp.class = "ResistorV" ->
           << Shape("rect", <<x - 10, y - 25, 20, 50>>, OrFlag(options, "dashed")),
              SideLabel(x, y, options, 15, caption) >>
      [] comp.class = "CapacitorH" ->
           << Shape("line", <<x - 4, y - 12, x - 4, y + 12>>, FALSE),
              Shape("line", <<x + 4, y - 12, x + 4, y + 12>>, FALSE),
              Text(x, y - 18, "middle", caption, 0) >>
      [] comp.class = "CapacitorV" ->
           << Shape("line", <<x - 12, y - 4, x + 12, y - 4>>, FALSE),
              Shape("line", <<x - 12, y + 4, x + 12, y + 4>>, FALSE),
              SideLabel(x, y, options, 18, caption) >>
      [] comp.class = "Ground" ->
           << Shape("line", <<x - 10, y, x + 10, y>>, OrFlag(options, "dashed")),
              Shape("line", <<x - 6, y + 5, x + 6, y + 5>>, OrFlag(options, "dashed")),
              Shape("line", <<x - 3, y + 10, x + 3, y + 10>>, OrFlag(options, "dashed")) >>
      [] comp.class = "DiodeH" ->
           (IF comp.flip
            THEN << Shape("polygon", <<x + 10, y - 10, x + 10, y + 10, x - 5, y>>, FALSE),
                    Shape("line", <<x - 5, y - 10, x - 5, y + 10>>, FALSE) >>
            ELSE << Shape("polygon", <<x - 10, y - 10, x - 10, y + 10, x + 5, y>>, FALSE),
                    Shape("line", <<x + 5, y - 10, x + 5, y + 10>>, FALSE) >>)
           \o << Shape("line", <<x - 15, y, x - 10, y>>, FALSE),
                 Shape("line", <<x + 5, y, x + 15, y>>, FALSE),
                 Text(x, y - 15, "middle", caption, 0) >>
      [] comp.class = "DiodeV" ->
           (IF comp.flip
            THEN << Shape("polygon", <<x - 10, y + 5, x + 10, y + 5, x, y - 10>>, FALSE),
                    Shape("line", <<x - 10, y - 10, x + 10, y - 10>>, FALSE),
                    Shape("line", <<x, y - 15, x, y - 10>>, FALSE),
                    Shape("line", <<x, y + 5, x, y + 15>>, FALSE) >>
            ELSE << Shape("polygon", <<x - 10, y - 5, x + 10, y - 5, x, y + 10>>, FALSE),
                    Shape("line", <<x - 10, y + 10, x + 10, y + 10>>, FALSE),
                    Shape("line", <<x, y - 15, x, y - 5>>, FALSE),
                    Shape("line", <<x, y + 10, x, y + 15>>, FALSE) >>)
           \o << SideLabel(x, y, options, 15, caption) >>
      [] comp.class = "InductorH" ->
           << Shape("path", <<x - 24, y>>, FALSE),
              Text(x, y - 15, "middle", caption, 0) >>
      [] comp.class = "InductorV" ->
           << Shape("path", <<x, y - 24>>, FALSE),
              SideLabel(x, y, options, 15, caption) >>
      [] comp.class = "NPN" ->
           << Shape("line", <<x, y - 20, x, y + 20>>, FALSE),
              Shape("line", <<x - 15, y, x, y>>, FALSE),
              Shape("line", <<x, y - 10, x + 25, y - 25>>, FALSE),
              Shape("line", <<x, y + 10, x + 25, y + 25>>, FALSE),
              Shape("polygon", <<x + 19, y + 18, x + 25, y + 25, x + 17, y + 23>>, FALSE) >>
      [] comp.class = "Power" ->
           << Shape("line", <<x, y, x, y - 10>>, FALSE),
              Text(x, y - 15, "middle", OrStr(options, "label", "V+"), 0) >>
      [] comp.class = "DCSource" ->
           << Shape("circle", <<x, y + 25, 15>>, FALSE),
              Shape("line", <<x - 5, y + 20, x + 5, y + 20>>, FALSE),
              Shape("line", <<x, y + 15, x, y + 25>>, FALSE),
              Shape("line", <<x - 5, y + 32, x + 5, y + 32>>, FALSE),
              Shape("line", <<x, y, x, y + 10>>, FALSE),
              Shape("line", <<x, y + 40, x, y + 50>>, FALSE),
              IF OrStr(options, "label", "") # ""
              THEN Text(x + 20, y + 30, "start", options.label, 0)
              ELSE IF OrNum(options, "value", 0) # 0
              THEN Text(x + 20, y + 30, "start", "V", options.value)
              ELSE Text(x + 20, y + 30, "start", "Vdc", 0) >>
      [] comp.class = "ACSource" ->
           << Shape("circle", <<x, y + 25, 15>>, FALSE),
              Shape("path", <<x - 8, y + 25, x - 4, y + 18, x, y + 25, x + 8, y + 25>>, FALSE),
              Shape("line", <<x, y, x, y + 10>>, FALSE),
              Shape("line", <<x, y + 40, x, y + 50>>, FALSE),
              Text(x + 20, y + 30, "start", OrStr(options, "label", "Vac"), 0) >>
      [] comp.class = "ACSourceH" ->
           << Shape("circle", <<x, y, 15>>, FALSE),
              Shape("path", <<x - 8, y, x - 4, y - 7, x, y, x + 8, y>>, FALSE),
              Shape("line", <<x - 25, y, x - 15, y>>, FALSE),
              Shape("line", <<x + 15, y, x + 25, y>>, FALSE),
              Text(x, y - 20, "middle", OrStr(options, "label", "Vin"), 0) >>
      [] comp.class = "Probe" ->
           << Shape("circle", <<x, y, 4>>, FALSE) >>
           \o (IF OrStr(options, "label", "") # ""
               THEN << Text(x + 8, y + 4, "start", options.label, 0) >>
               ELSE << >>)

\* a line of the simulator's text: its type tag and the numbers after it
FalstadLine(tag, args) == [tag |-> tag, args |-> args]

\* comp.toFalstad(): the lines of the component, none where the code
\* returns null; the numbers that are the same in every line of a tag
\* (a diode's model parameters, a source's bias) are left out
ComponentToFalstad(comp) ==
    LET x == comp.x
        y == comp.y
        options == comp.options
    IN
    CASE comp.class = "OpAmp" ->
           << FalstadLine("a", <<x - 40, y, x + 40, y,
                                 IF comp.flip THEN 1 ELSE 0,
                                 OrNum(options, "vcc", 12),
                                 -OrNum(options, "vcc", 12), 0>>) >>
      [] comp.class = "ResistorH" ->
           IF IsUndefined(options, "value") THEN << >>
           ELSE << FalstadLine("r", <<x - 25, y, x + 25, y, 0, options.value>>) >>
      [] comp.class = "ResistorV" ->
           IF IsUndefined(options, "value") THEN << >>
           ELSE << FalstadLine("r", <<x, y - 25, x, y + 25, 0, options.value>>) >>
      [] comp.class = "CapacitorH" ->
           IF IsUndefined(options, "value") THEN << >>
           ELSE << FalstadLine("c", <<x - 4, y, x + 4, y, 0, options.value, 0>>) >>
      [] comp.class = "CapacitorV" ->
           IF IsUndefined(options, "value") THEN << >>
           ELSE << FalstadLine("c", <<x, y - 4, x, y + 4, 0, options.value, 0>>) >>
      [] comp.class = "Ground" ->
           << FalstadLine("g", <<x, y, x, y + 16, 0>>) >>
      \* a diode's forward drop is held in tenths of a volt: 7 is 0.7 V
      [] comp.class = "DiodeH" ->
           IF IsUndefined(options, "value") /\ IsUndefined(options, "vf")
           THEN << >>
           ELSE IF comp.flip
           THEN << FalstadLine("d", <<x + 15, y, x - 15, y,
                                     IF OrFlag(options, "led") THEN 4 ELSE 1,
                                     OrNum(options, "vf", OrNum(options, "value", 7))>>) >>
           ELSE << FalstadLine("d", <<x - 15, y, x + 15, y,
                                     IF OrFlag(options, "led") THEN 4 ELSE 1,
                                     OrNum(options, "vf", OrNum(options, "value", 7))>>) >>
      [] comp.class = "DiodeV" ->
           IF IsUndefined(options, "value") /\ IsUndefined(options, "vf")
           THEN << >>
           ELSE IF comp.flip
           THEN << FalstadLine("d", <<x, y + 15, x, y - 15,
                                     IF OrFlag(options, "led") THEN 4 ELSE 1,
                                     OrNum(options, "vf", OrNum(options, "value", 7))>>) >>
           ELSE << FalstadLine("d", <<x, y - 15, x, y + 15,
                                     IF OrFlag(options, "led") THEN 4 ELSE 1,
                                     OrNum(options, "vf", OrNum(options, "value", 7))>>) >>
      [] comp.class = "InductorH" ->
           IF IsUndefined(options, "value") THEN << >>
           ELSE << FalstadLine("l", <<x - 24, y, x + 24, y, 0, options.value, 0>>) >>
      [] comp.class = "InductorV" ->
           IF IsUndefined(options, "value") THEN << >>
           ELSE << FalstadLine("l", <<x, y - 24, x, y + 24, 0, options.value, 0>>) >>
      [] comp.class = "NPN" ->
           << FalstadLine("t", <<x - 15, y, x + 25, y, 0, 1,
                                 OrNum(options, "beta", 100)>>) >>
      [] comp.class = "Power" ->
           IF IsUndefined(options, "value") THEN << >>
           ELSE << FalstadLine("R", <<x, y, x, y - 32, 0, 0, 40, options.value>>) >>
      [] comp.class = "DCSource" ->
           IF IsUndefined(options, "value") THEN << >>
           ELSE << FalstadLine("R", <<x, y, x, y + 50, 0, 0, 40, options.value>>) >>
      [] comp.class = "ACSource" ->
           << FalstadLine("R", <<x, y, x, y + 50, 0, 1,
                                 OrNum(options, "freq", 1000),
                                 OrNum(options, "value", 1)>>) >>
      [] comp.class = "ACSourceH" ->
           << FalstadLine("R", <<x + 25, y, x - 25, y, 0, 1,
                                 OrNum(options, "freq", 1000),
                                 OrNum(options, "value", 1)>>) >>
      [] comp.class = "Probe" ->
           << FalstadLine("p", <<x, y, x + 48, y, 1, 0, 0>>) >>
      [] OTHER -> << >>

\* a + b of two numbers
Plus(a, b) == IF a = NaN \/ b = NaN THEN NaN ELSE a + b

\* 2 * a
Twice(a) == Plus(a, a)

\* the points of a polyline; each coordinate is held times two, because the
\* middle (a + b) / 2 of two whole numbers has a half
Polyline(points2, dashed) ==
    [tag |-> "polyline", points2 |-> points2, dashed |-> dashed]

\* the drawing of a wire between the points from and to
WirePath(from, to, options) ==
    LET route == OrStr(options, "route", "direct")
        dashed == OrFlag(options, "dashed")
    IN
    CASE route = "direct" ->
           << Shape("line", <<from.x, from.y, to.x, to.y>>, dashed) >>
      [] route = "h-v" ->
           << Polyline(<<Twice(from.x), Twice(from.y), Twice(to.x), Twice(from.y),
                         Twice(to.x), Twice(to.y)>>, dashed) >>
      [] route = "v-h" ->
           << Polyline(<<Twice(from.x), Twice(from.y), Twice(from.x), Twice(to.y),
                         Twice(to.x), Twice(to.y)>>, dashed) >>
      [] route = "h-v-h" ->
           LET midX2 == IF OrNum(options, "midX", 0) # 0
                        THEN Twice(options.midX) ELSE Plus(from.x, to.x)
           IN  << Polyline(<<Twice(from.x), Twice(from.y), midX2, Twice(from.y),
                             midX2, Twice(to.y), Twice(to.x), Twice(to.y)>>,
                           dashed) >>
      [] route = "v-h-v" ->
           LET midY2 == IF OrNum(options, "midY", 0) # 0
                        THEN Twice(options.midY) ELSE Plus(from.y, to.y)
           IN  << Polyline(<<Twice(from.x), Twice(from.y), Twice(from.x), midY2,
                             Twice(to.x), midY2, Twice(to.x), Twice(to.y)>>,
                           dashed) >>
      [] OTHER -> << >>

\* _drawWire(wire): both ends are resolved before the route is looked at
_drawWire(s, w) ==
    IF pin(s, w.from).threw THEN pin(s, w.from)
    ELSE IF pin(s, w.to).threw THEN pin(s, w.to)
    ELSE Returned(WirePath(pin(s, w.from).value, pin(s, w.to).value,
                           w.options))

\* the loop over the wires of toSVG, from wire i on, svg being the text so
\* far; a throw ends it
RECURSIVE DrawWires(_, _, _)
DrawWires(s, i, svg) ==
    IF i > Len(s.wires) THEN Returned(svg)
    ELSE IF _drawWire(s, s.wires[i]).threw THEN _drawWire(s, s.wires[i])
    ELSE DrawWires(s, i + 1, svg \o _drawWire(s, s.wires[i]).value)

\* the loop over the components of toSVG
RECURSIVE DrawComponents(_, _, _)
DrawComponents(s, i, svg) ==
    IF i > Len(s.components) THEN Returned(svg)
    ELSE IF s.components[i].value.class = "Object"
    THEN Thrown("TypeError: comp.render is not a function",
                s.components[i].key)
    ELSE DrawComponents(s, i + 1, svg \o render(s.components[i].value))

DrawNode(n) == Shape("circle", <<n.x, n.y, 3>>, FALSE)

DrawLabel(lbl) ==
    [tag |-> "text", at |-> <<lbl.x, lbl.y>>,
     anchor |-> OrStr(lbl, "anchor", "start"), text |-> lbl.text, n |-> 0,
     bold |-> OrFlag(lbl, "bold")]

SvgOpen(s) == [tag |-> "svg", at |-> <<s.width, s.height>>]

SvgClose == [tag |-> "/svg"]

\* toSVG drawing the components before the wires
toSVG_componentsFirst(s) ==
    LET comps == DrawComponents(s, 1, << SvgOpen(s) >>)
    IN  IF comps.threw THEN comps
        ELSE LET wires == DrawWires(s, 1, comps.value)
             IN  IF wires.threw THEN wires
                 ELSE Returned(wires.value
                               \o [i \in DOMAIN s.nodes |-> DrawNode(s.nodes[i])]
                               \o [i \in DOMAIN s.labels |-> DrawLabel(s.labels[i])]
                               \o << SvgClose >>)

\* toSVG(): the text as the list of its elements
toSVG(s) ==
    LET wires == DrawWires(s, 1, << SvgOpen(s) >>)
    IN  IF wires.threw THEN wires
        ELSE LET comps == DrawComponents(s, 1, wires.value)
             IN  IF comps.threw THEN comps
                 ELSE Returned(comps.value
                               \o [i \in DOMAIN s.nodes |-> DrawNode(s.nodes[i])]
                               \o [i \in DOMAIN s.labels |-> DrawLabel(s.labels[i])]
                               \o << SvgClose >>)

\* the loop over the components of toFalstad
RECURSIVE ExportComponents(_, _, _)
ExportComponents(s, i, lines) ==
    IF i > Len(s.components) THEN lines
    ELSE ExportComponents(s, i + 1,
                          lines \o ComponentToFalstad(s.components[i].value))

\* the lines of a wire between the simulator's points from and to
WireLines(from, to, options) ==
    LET route == OrStr(options, "route", "direct")
    IN
    CASE route = "direct" ->
           << FalstadLine("w", <<from.x, from.y, to.x, to.y, 0>>) >>
      [] route = "h-v" ->
           << FalstadLine("w", <<from.x, from.y, to.x, from.y, 0>>),
              FalstadLine("w", <<to.x, from.y, to.x, to.y, 0>>) >>
      [] route = "v-h" ->
           << FalstadLine("w", <<from.x, from.y, from.x, to.y, 0>>),
              FalstadLine("w", <<from.x, to.y, to.x, to.y, 0>>) >>
      [] OTHER -> << >>

\* the loop over the wires of toFalstad
RECURSIVE ExportWires(_, _, _)
ExportWires(s, i, lines) ==
    IF i > Len(s.wires) THEN Returned(lines)
    ELSE IF falstadPin(s, s.wires[i].from).threw
    THEN falstadPin(s, s.wires[i].from)
    ELSE IF falstadPin(s, s.wires[i].to).threw
    THEN falstadPin(s, s.wires[i].to)
    ELSE ExportWires(s, i + 1,
                     lines \o WireLines(falstadPin(s, s.wires[i].from).value,
                                        falstadPin(s, s.wires[i].to).value,
                                        s.wires[i].options))

\* toFalstad(): the text as the list of its lines
toFalstad(s) ==
    ExportWires(s, 1,
                ExportComponents(s, 1,
                    << FalstadLine("$", <<1, OrNum(s.falstadOptions, "vMax", 24), 5, 50>>) >>))

(* -------------------------------- plots -------------------------------- *)

\* the lists of a list of lists put end to end
RECURSIVE Flatten(_)
Flatten(lists) ==
    IF lists = << >> THEN << >> ELSE Head(lists) \o Flatten(Tail(lists))

\* NaN as a number of the plots: neither finite nor of either sign
NotANumber == [m |-> 0, e |-> 400]

IsNaN(a) == a.m = 0 /\ a.e >= 400

\* a / b with the quotients of zero and of infinity
Quot(a, b) ==
    IF IsNaN(a) \/ IsNaN(b) THEN NotANumber
    ELSE IF IsInf(a)
    THEN IF IsInf(b) THEN NotANumber
         ELSE [m |-> a.m * (IF b.m < 0 THEN -1 ELSE 1), e |-> 400]
    ELSE IF IsInf(b) THEN Zero
    ELSE IF b.m = 0
    THEN IF a.m = 0 THEN NotANumber ELSE [m |-> Sign(a.m), e |-> 400]
    ELSE Div(a, b)

\* a * b with the products of infinity
Times(a, b) ==
    IF IsNaN(a) \/ IsNaN(b) THEN NotANumber
    ELSE IF IsInf(a) \/ IsInf(b)
    THEN IF a.m = 0 \/ b.m = 0 THEN NotANumber
         ELSE [m |-> Sign(a.m) * Sign(b.m), e |-> 400]
    ELSE Mul(a, b)

\* a + b with the sums of infinity
Sum(a, b) ==
    IF IsNaN(a) \/ IsNaN(b) THEN NotANumber
    ELSE IF IsInf(a) /\ IsInf(b) THEN IF a.m = b.m THEN a ELSE NotANumber
    ELSE Add(a, b)

Diff(a, b) == Sum(a, Neg(b))

\* Math.min and Math.max of two numbers
MinD(a, b) ==
    IF IsNaN(a) \/ IsNaN(b) THEN NotANumber ELSE IF Less(b, a) THEN b ELSE a

MaxD(a, b) ==
    IF IsNaN(a) \/ IsNaN(b) THEN NotANumber ELSE IF Less(a, b) THEN b ELSE a

\* Math.floor and Math.ceil of a finite number, as an integer
FloorD(a) ==
    IF a.e >= 0 THEN a.m * Pow10(a.e)
    ELSE IF a.m >= 0 THEN a.m \div Pow10(-a.e)
    ELSE -((-a.m + Pow10(-a.e) - 1) \div Pow10(-a.e))

CeilD(a) == -FloorD(Neg(a))

\* Math.log10: exact for a power of ten, else the decade of the number plus
\* the logarithm of its leading digits
Log10(a) ==
    IF IsNaN(a) \/ a.m < 0 THEN NotANumber
    ELSE IF a.m = 0 THEN Neg(Infinity)
    ELSE IF IsInf(a) THEN a
    ELSE IF a.m = 1 THEN Dec(a.e, 0)
    ELSE Add(Dec(FloorLog10(a), 0),
             Div(Ln([m |-> a.m, e |-> 1 - NumDigits(a.m)]), Ln(Ten)))

\* number.toFixed(places): the digits of the number rounded to that many
\* decimal places, or the name of a number that is not finite
toFixed(a, places) ==
    IF IsNaN(a) THEN [name |-> "NaN", digits |-> 0, places |-> places]
    ELSE IF IsInf(a)
    THEN [name |-> IF a.m < 0 THEN "-Infinity" ELSE "Infinity",
          digits |-> 0, places |-> places]
    ELSE [name |-> "",
          digits |-> IF a.e >= -places THEN a.m * Pow10(a.e + places)
                     ELSE Sign(a.m) * ((Abs(a.m) + Pow10(-places - a.e) \div 2)
                                            \div Pow10(-places - a.e)),
          places |-> places]

\* one drawn element of a plot: a line, a rectangle or a path
PlotShape(tag, at, color, width, dashed) ==
    [tag |-> tag, at |-> at, color |-> color, width |-> width,
     dashed |-> dashed]

\* one text element of a plot: its position, its words and its number
PlotText(x, y, anchor, text, n) ==
    [tag |-> "text", at |-> <<x, y>>, anchor |-> anchor, text |-> text,
     n |-> n]

\* options.name || d for a number of a plot
Or(options, name, d) ==
    IF name \in DOMAIN options /\ options[name] # Zero THEN options[name]
    ELSE d

\* <svg viewBox="0 0 width height" ...> and the background of the plot area
PlotOpen(g) ==
    << [tag |-> "svg", at |-> <<g.width, g.height>>],
       PlotShape("rect", <<g.margin.left, g.margin.top, g.plotW, g.plotH>>,
                 "#fafafa", One, FALSE) >>

\* the legend drawn in a row: a sample line and the label of each item
RECURSIVE LegendRow(_, _, _, _, _, _)
LegendRow(items, i, legendX, y, per, gap) ==
    IF i > Len(items) THEN << >>
    ELSE << PlotShape("line", <<legendX, y, Sum(legendX, Dec(20, 0)), y>>,
                      items[i].color, Two, items[i].dashed),
            PlotText(Sum(legendX, Dec(25, 0)), Sum(y, Dec(4, 0)), "start",
                     items[i].label, << >>) >>
         \o LegendRow(items, i + 1,
                      Sum(legendX, Dec(gap + Len(items[i].label) * per, 0)),
                      y, per, gap)

\* the path of a curve: one vertex for each mapped point
PlotPath(vertices, curve) ==
    PlotShape("path", vertices, curve.color, curve.width, curve.dashed)

\* the entry of a curve, of a reference line and of the legend
Curve(points, options, color) ==
    [points |-> points,
     color |-> OrStr(options, "color", color),
     width |-> Or(options, "width", Two),
     dashed |-> OrFlag(options, "dashed"),
     label |-> OrStr(options, "label", "")]

RefLine(at, options, color) ==
    [at |-> at,
     color |-> OrStr(options, "color", color),
     label |-> OrStr(options, "label", ""),
     dashed |-> ~("dashed" \in DOMAIN options /\ ~options.dashed)]

LegendItem(text, color, dashed) ==
    [label |-> text, color |-> color, dashed |-> dashed]

\* class Graph: new Graph(options)
Graph(options) ==
    LET width == Or(options, "width", Dec(600, 0))
        height == Or(options, "height", Dec(300, 0))
        margin == IF "margin" \in DOMAIN options THEN options.margin
                  ELSE [top |-> Dec(20, 0), right |-> Dec(30, 0),
                        bottom |-> Dec(40, 0), left |-> Dec(50, 0)]
    IN
    [class |-> "Graph",
     width |-> width,
     height |-> height,
     margin |-> margin,
     plotW |-> Diff(Diff(width, margin.left), margin.right),
     plotH |-> Diff(Diff(height, margin.top), margin.bottom),
     xMin |-> Or(options, "xMin", One),
     xMax |-> Or(options, "xMax", Dec(100000, 0)),
     yMin |-> Or(options, "yMin", Dec(-60, 0)),
     yMax |-> Or(options, "yMax", Dec(20, 0)),
     xLog |-> ~("xLog" \in DOMAIN options /\ ~options.xLog),
     yLog |-> OrFlag(options, "yLog"),
     xLabel |-> OrStr(options, "xLabel", "Frequency"),
     yLabel |-> OrStr(options, "yLabel", "Gain (dB)"),
     curves |-> << >>,
     hLines |-> << >>,
     vLines |-> << >>,
     legendItems |-> << >>]

xScale(g, val) ==
    IF g.xLog
    THEN Sum(g.margin.left,
             Quot(Times(g.plotW, Diff(Log10(val), Log10(g.xMin))),
                  Diff(Log10(g.xMax), Log10(g.xMin))))
    ELSE Sum(g.margin.left,
             Quot(Times(g.plotW, Diff(val, g.xMin)), Diff(g.xMax, g.xMin)))

yScale(g, val) ==
    Sum(g.margin.top,
        Quot(Times(g.plotH, Diff(g.yMax, val)), Diff(g.yMax, g.yMin)))

\* _clampY with the lower bound left out
_clampY_upperOnly(g, y) == MinD(g.yMax, y)

_clampY(g, y) == MaxD(g.yMin, MinD(g.yMax, y))

\* _formatFreq: the number and its unit letter
_formatFreq(f) ==
    IF Leq(Dec(1, 6), f) THEN [n |-> Quot(f, Dec(1, 6)), unit |-> "M"]
    ELSE IF Leq(Dec(1, 3), f) THEN [n |-> Quot(f, Dec(1, 3)), unit |-> "k"]
    ELSE [n |-> f, unit |-> ""]

\* _niceStep rounding to the nearest of 1, 2, 5 and 10 times the magnitude
_niceStep_nearest(range, targetSteps) ==
    LET rough == Quot(range, targetSteps)
        mag == PowTen(FloorLog10(rough))
        norm == Quot(rough, mag)
    IN  IF Less(norm, Dec(15, -1)) THEN Times(One, mag)
        ELSE IF Less(norm, Dec(35, -1)) THEN Times(Two, mag)
        ELSE IF Less(norm, Dec(75, -1)) THEN Times(Dec(5, 0), mag)
        ELSE Times(Ten, mag)

\* _niceStep(range, targetSteps) of a positive range
_niceStep(range, targetSteps) ==
    LET rough == Quot(range, targetSteps)
        mag == PowTen(FloorLog10(rough))
        norm == Quot(rough, mag)
    IN  IF Less(norm, Two) THEN Times(One, mag)
        ELSE IF Less(norm, Dec(5, 0)) THEN Times(Two, mag)
        ELSE Times(Dec(5, 0), mag)

\* the vertical grid line and the frequency label of one decade
DecadeGrid(g, decade) ==
    << PlotShape("line",
                 <<xScale(g, PowTen(decade)), g.margin.top,
                   xScale(g, PowTen(decade)), Sum(g.margin.top, g.plotH)>>,
                 "#ddd", One, FALSE),
       PlotText(xScale(g, PowTen(decade)), Diff(g.height, Dec(5, 0)),
                "middle", _formatFreq(PowTen(decade)).unit,
                _formatFreq(PowTen(decade)).n) >>

\* the horizontal grid lines and their labels, from y up to yMax
RECURSIVE YGrid(_, _, _)
YGrid(g, y, yStep) ==
    IF ~Leq(y, g.yMax) \/ IsNaN(y) THEN << >>
    ELSE << PlotShape("line",
                      <<g.margin.left, yScale(g, y),
                        Sum(g.margin.left, g.plotW), yScale(g, y)>>,
                      "#ddd", One, FALSE),
            PlotText(Diff(g.margin.left, Dec(5, 0)),
                     Sum(yScale(g, y), Dec(4, 0)), "end", "", y) >>
         \o YGrid(g, Sum(y, yStep), yStep)

\* Graph.toSVG(): the text as the list of its elements
Graph_toSVG(g) ==
    LET lo == CeilD(Log10(g.xMin))
        hi == FloorD(Log10(g.xMax))
        yStep == _niceStep(Diff(g.yMax, g.yMin), Dec(8, 0))
    IN  PlotOpen(g)
        \o (IF g.xLog /\ lo <= hi
            THEN Flatten([k \in 1..(hi - lo + 1) |-> DecadeGrid(g, lo + k - 1)])
            ELSE << >>)
        \o YGrid(g, Times(Dec(CeilD(Quot(g.yMin, yStep)), 0), yStep), yStep)
        \o [i \in DOMAIN g.hLines |->
              PlotShape("line",
                        <<g.margin.left, yScale(g, g.hLines[i].at),
                          Sum(g.margin.left, g.plotW),
                          yScale(g, g.hLines[i].at)>>,
                        g.hLines[i].color, One, g.hLines[i].dashed)]
        \o [i \in DOMAIN g.vLines |->
              PlotShape("line",
                        <<xScale(g, g.vLines[i].at), g.margin.top,
                          xScale(g, g.vLines[i].at),
                          Sum(g.margin.top, g.plotH)>>,
                        g.vLines[i].color, One, g.vLines[i].dashed)]
        \o Flatten([c \in DOMAIN g.curves |->
              IF g.curves[c].points = << >> THEN << >>
              ELSE << PlotPath([i \in DOMAIN g.curves[c].points |->
                                  [x |-> xScale(g, g.curves[c].points[i].x),
                                   y |-> yScale(g, _clampY(g,
                                            g.curves[c].points[i].y))]],
                               g.curves[c]) >>])
        \o << PlotText(Quot(g.width, Two), Diff(g.height, Dec(22, 0)),
                       "middle", g.xLabel, << >>),
              PlotText(Dec(15, 0), Quot(g.height, Two), "middle", g.yLabel,
                       << >>) >>
        \o LegendRow(g.legendItems, 1, Sum(g.margin.left, Dec(10, 0)),
                     Sum(g.margin.top, Dec(12, 0)), 7, 40)
        \o << SvgClose >>

\* Math.pow(10, x): exact for an integer x
PowOfTen(x) ==
    IF IsNaN(x) THEN NotANumber
    ELSE IF IsInf(x) THEN (IF x.m < 0 THEN Zero ELSE Infinity)
    ELSE IF x.e >= 0 THEN PowTen(x.m * Pow10(x.e))
    ELSE Pow10R(x)

\* the magnitude functions a page passes to generateResponseCurve: a flat
\* gain of 2, a gain falling with the frequency, and no output at all
magFn(name, f) ==
    CASE name = "flat" -> Two
      [] name = "slope" -> Quot(Dec(100, 0), f)
      [] OTHER -> Zero

\* the first pass of generateResponseCurve: the samples from i up to
\* numPoints, both included
RECURSIVE ResponseSamples(_, _, _, _, _)
ResponseSamples(fMin, fMax, name, numPoints, i) ==
    IF ~Leq(Dec(i, 0), numPoints) THEN << >>
    ELSE << [f |-> PowOfTen(Sum(Log10(fMin),
                                Quot(Times(Diff(Log10(fMax), Log10(fMin)),
                                           Dec(i, 0)),
                                     numPoints))),
             mag |-> magFn(name,
                           PowOfTen(Sum(Log10(fMin),
                                        Quot(Times(Diff(Log10(fMax),
                                                        Log10(fMin)),
                                                   Dec(i, 0)),
                                             numPoints))))] >>
         \o ResponseSamples(fMin, fMax, name, numPoints, i + 1)

\* maxMag after the samples from i on
RECURSIVE MaxMag(_, _, _)
MaxMag(points, i, maxMag) ==
    IF i > Len(points) THEN maxMag
    ELSE IF ~IsNaN(points[i].mag) /\ Less(maxMag, points[i].mag)
    THEN MaxMag(points, i + 1, points[i].mag)
    ELSE MaxMag(points, i + 1, maxMag)

\* Helper: Generate frequency response points
generateResponseCurve(fMin, fMax, name, options) ==
    LET numPoints == Or(options, "numPoints", Dec(200, 0))
        points == ResponseSamples(fMin, fMax, name, numPoints, 0)
        normFactor == IF OrFlag(options, "normalize")
                         /\ Less(Zero, MaxMag(points, 1, Zero))
                      THEN MaxMag(points, 1, Zero) ELSE One
    IN  [i \in DOMAIN points |->
           [x |-> points[i].f,
            y |-> Times(Dec(20, 0), Log10(Quot(points[i].mag, normFactor)))]]

\* the least and the greatest of a list of numbers, folded as the scan
\* loops fold them with Math.min and Math.max
RECURSIVE Lowest(_, _, _)
Lowest(values, i, least) ==
    IF i > Len(values) THEN least
    ELSE Lowest(values, i + 1, MinD(least, values[i]))

RECURSIVE Highest(_, _, _)
Highest(values, i, greatest) ==
    IF i > Len(values) THEN greatest
    ELSE Highest(values, i + 1, MaxD(greatest, values[i]))

\* the x and the y of every point of every curve, in order
AllX(g) ==
    Flatten([c \in DOMAIN g.curves |->
               [i \in DOMAIN g.curves[c].points |-> g.curves[c].points[i].x]])

AllY(g) ==
    Flatten([c \in DOMAIN g.curves |->
               [i \in DOMAIN g.curves[c].points |-> g.curves[c].points[i].y]])

\* class WaveformGraph, class TransferGraph, class BarGraph: new X(options)
NewPlot(class, options, width, height, margin) ==
    [class |-> class,
     width |-> Or(options, "width", width),
     height |-> Or(options, "height", height),
     margin |-> IF "margin" \in DOMAIN options THEN options.margin ELSE margin,
     plotW |-> Diff(Diff(Or(options, "width", width),
                         (IF "margin" \in DOMAIN options THEN options.margin
                          ELSE margin).left),
                    (IF "margin" \in DOMAIN options THEN options.margin
                     ELSE margin).right),
     plotH |-> Diff(Diff(Or(options, "height", height),
                         (IF "margin" \in DOMAIN options THEN options.margin
                          ELSE margin).top),
                    (IF "margin" \in DOMAIN options THEN options.margin
                     ELSE margin).bottom),
     legendItems |-> << >>]

WaveformGraph(options) ==
    [xLabel |-> OrStr(options, "xLabel", ""),
     yLabel |-> OrStr(options, "yLabel", ""),
     yUnit |-> OrStr(options, "yUnit", "V"),
     curves |-> << >>,
     hLines |-> << >>]
    @@ NewPlot("WaveformGraph", options, Dec(500, 0), Dec(200, 0),
               [top |-> Dec(30, 0), right |-> Dec(20, 0),
                bottom |-> Dec(30, 0), left |-> Dec(50, 0)])

\* the ranges WaveformGraph.toSVG scans from the data; the y range takes the
\* reference lines in and is made symmetric
Waveform_range_curvesOnly(g) ==
    [xLog |-> FALSE,
     xMin |-> Lowest(AllX(g), 1, Infinity),
     xMax |-> Highest(AllX(g), 1, Neg(Infinity)),
     yMin |-> Neg(Times(MaxD(AbsD(Lowest(AllY(g), 1, Infinity)),
                             AbsD(Highest(AllY(g), 1, Neg(Infinity)))),
                        Dec(11, -1))),
     yMax |-> Times(MaxD(AbsD(Lowest(AllY(g), 1, Infinity)),
                         AbsD(Highest(AllY(g), 1, Neg(Infinity)))),
                    Dec(11, -1))]

Waveform_range(g) ==
    LET ys == AllY(g) \o [i \in DOMAIN g.hLines |-> g.hLines[i].at]
        yAbs == Times(MaxD(AbsD(Lowest(ys, 1, Infinity)),
                           AbsD(Highest(ys, 1, Neg(Infinity)))),
                      Dec(11, -1))
    IN  [xLog |-> FALSE,
         xMin |-> Lowest(AllX(g), 1, Infinity),
         xMax |-> Highest(AllX(g), 1, Neg(Infinity)),
         yMin |-> Neg(yAbs),
         yMax |-> yAbs]

\* WaveformGraph.toSVG(); its xScale and yScale are the linear maps of the
\* Graph over the scanned ranges
Waveform_toSVG(g) ==
    LET s == Waveform_range(g) @@ g
        zeroY == yScale(s, Zero)
    IN  PlotOpen(g)
        \o << PlotShape("line",
                        <<g.margin.left, zeroY,
                          Sum(g.margin.left, g.plotW), zeroY>>,
                        "#aaa", One, FALSE) >>
        \o Flatten([i \in DOMAIN g.hLines |->
              << PlotShape("line",
                           <<g.margin.left, yScale(s, g.hLines[i].at),
                             Sum(g.margin.left, g.plotW),
                             yScale(s, g.hLines[i].at)>>,
                           g.hLines[i].color, One, g.hLines[i].dashed) >>
              \o (IF g.hLines[i].label # ""
                  THEN << PlotText(Sum(Sum(g.margin.left, g.plotW), Three),
                                   Sum(yScale(s, g.hLines[i].at), Dec(4, 0)),
                                   "start", g.hLines[i].label, << >>) >>
                  ELSE << >>)])
        \o Flatten([c \in DOMAIN g.curves |->
              IF g.curves[c].points = << >> THEN << >>
              ELSE << PlotPath([i \in DOMAIN g.curves[c].points |->
                                  [x |-> xScale(s, g.curves[c].points[i].x),
                                   y |-> yScale(s, g.curves[c].points[i].y)]],
                               g.curves[c]) >>])
        \o << PlotText(Diff(g.margin.left, Dec(5, 0)),
                       Sum(g.margin.top, Dec(5, 0)), "end", g.yUnit,
                       [plus |-> TRUE] @@ toFixed(s.yMax, 2)),
              PlotText(Diff(g.margin.left, Dec(5, 0)), Sum(zeroY, Dec(4, 0)),
                       "end", "0", << >>),
              PlotText(Diff(g.margin.left, Dec(5, 0)),
                       Sum(g.margin.top, g.plotH), "end", g.yUnit,
                       toFixed(s.yMin, 2)) >>
        \o (IF g.xLabel # ""
            THEN << PlotText(Sum(g.margin.left, Quot(g.plotW, Two)),
                             Diff(g.height, Dec(5, 0)), "middle", g.xLabel,
                             << >>) >>
            ELSE << >>)
        \o LegendRow(g.legendItems, 1, Sum(g.margin.left, Dec(10, 0)),
                     Diff(g.margin.top, Dec(15, 0)), 6, 30)
        \o << SvgClose >>

TransferGraph(options) ==
    [xLabel |-> OrStr(options, "xLabel", "Vin"),
     yLabel |-> OrStr(options, "yLabel", "Vout"),
     curves |-> << >>]
    @@ NewPlot("TransferGraph", options, Dec(400, 0), Dec(300, 0),
               [top |-> Dec(20, 0), right |-> Dec(20, 0),
                bottom |-> Dec(40, 0), left |-> Dec(50, 0)])

\* the absolute values of a list of numbers
AbsAll(values) == [i \in DOMAIN values |-> AbsD(values[i])]

\* TransferGraph.toSVG(): the first vertex of a path is drawn as given, the
\* later ones clamped into the y range
Transfer_toSVG(g) ==
    LET xMaxAbs == Times(Highest(AbsAll(AllX(g)), 1, Zero), Dec(11, -1))
        yMaxAbs == Times(Highest(AbsAll(AllY(g)), 1, Zero), Dec(11, -1))
        s == [xLog |-> FALSE, xMin |-> Neg(xMaxAbs), xMax |-> xMaxAbs,
              yMin |-> Neg(yMaxAbs), yMax |-> yMaxAbs] @@ g
        centerX == xScale(s, Zero)
        centerY == yScale(s, Zero)
        floor == Sum(g.margin.top, g.plotH)
    IN  PlotOpen(g)
        \o << PlotShape("line",
                        <<g.margin.left, centerY,
                          Sum(g.margin.left, g.plotW), centerY>>,
                        "#999", One, FALSE),
              PlotShape("line", <<centerX, g.margin.top, centerX, floor>>,
                        "#999", One, FALSE) >>
        \o (IF OrFlag(g, "_unityLine")
            THEN << PlotShape("line",
                              <<xScale(s, s.xMin), yScale(s, s.yMin),
                                xScale(s, s.xMax), yScale(s, s.yMax)>>,
                              "#aaa", One, TRUE) >>
            ELSE << >>)
        \o Flatten([c \in DOMAIN g.curves |->
              IF g.curves[c].points = << >> THEN << >>
              ELSE << PlotPath([i \in DOMAIN g.curves[c].points |->
                                  [x |-> xScale(s, g.curves[c].points[i].x),
                                   y |-> IF i = 1
                                         THEN yScale(s, g.curves[c].points[i].y)
                                         ELSE yScale(s, _clampY(s,
                                                g.curves[c].points[i].y))]],
                               g.curves[c]) >>])
        \o << PlotText(Diff(g.margin.left, Dec(5, 0)),
                       Sum(g.margin.top, Dec(5, 0)), "end", "V",
                       [plus |-> TRUE] @@ toFixed(s.yMax, 1)),
              PlotText(Diff(g.margin.left, Dec(5, 0)), Sum(centerY, Dec(4, 0)),
                       "end", "0", << >>),
              PlotText(Diff(g.margin.left, Dec(5, 0)), floor, "end", "V",
                       toFixed(s.yMin, 1)),
              PlotText(g.margin.left, Sum(floor, Dec(15, 0)), "start", "V",
                       toFixed(s.xMin, 1)),
              PlotText(centerX, Sum(floor, Dec(15, 0)), "middle", g.xLabel,
                       << >>),
              PlotText(Sum(g.margin.left, g.plotW), Sum(floor, Dec(15, 0)),
                       "end", "V", [plus |-> TRUE] @@ toFixed(s.xMax, 1)),
              PlotText(Sum(g.margin.left, Dec(5, 0)),
                       Sum(g.margin.top, Dec(15, 0)), "start", g.yLabel,
                       << >>) >>
        \o Flatten([i \in DOMAIN g.legendItems |->
              << PlotShape("line",
                           <<Diff(Sum(g.margin.left, g.plotW), Dec(100, 0)),
                             Sum(g.margin.top, Dec(10 + 15 * (i - 1), 0)),
                             Diff(Sum(g.margin.left, g.plotW), Dec(80, 0)),
                             Sum(g.margin.top, Dec(10 + 15 * (i - 1), 0))>>,
                           g.legendItems[i].color, Two,
                           g.legendItems[i].dashed),
                 PlotText(Diff(Sum(g.margin.left, g.plotW), Dec(75, 0)),
                          Sum(g.margin.top, Dec(14 + 15 * (i - 1), 0)),
                          "start", g.legendItems[i].label, << >>) >>])
        \o << SvgClose >>

BarGraph(options) ==
    [yMin |-> Or(options, "yMin", Dec(-60, 0)),
     yMax |-> Or(options, "yMax", Zero),
     xLabel |-> OrStr(options, "xLabel", ""),
     yLabel |-> OrStr(options, "yLabel", "dB"),
     bars |-> << >>]
    @@ NewPlot("BarGraph", options, Dec(500, 0), Dec(250, 0),
               [top |-> Dec(20, 0), right |-> Dec(20, 0),
                bottom |-> Dec(40, 0), left |-> Dec(50, 0)])

\* the grid lines of the bar plot, every 10 from y down to yMin
RECURSIVE BarGrid(_, _)
BarGrid(g, y) ==
    IF ~Leq(g.yMin, y) \/ IsNaN(y) THEN << >>
    ELSE << PlotShape("line",
                      <<g.margin.left, yScale(g, y),
                        Sum(g.margin.left, g.plotW), yScale(g, y)>>,
                      "#ddd", One, FALSE),
            PlotText(Diff(g.margin.left, Dec(5, 0)),
                     Sum(yScale(g, y), Dec(4, 0)), "end", "", y) >>
         \o BarGrid(g, Diff(y, Ten))

\* one bar: its rectangle, its x label and, when bar.y > yMin + 5, its value
Bar(g, i, slot, barWidth) ==
    LET x == Diff(Sum(g.margin.left, Times(Dec(10 * i - 5, -1), slot)),
                  Quot(barWidth, Two))
        barH == Times(Quot(Diff(g.yMax, _clampY(g, g.bars[i].y)),
                           Diff(g.yMax, g.yMin)),
                      g.plotH)
    IN  << PlotShape("rect", <<x, g.margin.top, barWidth, barH>>,
                     g.bars[i].color, One, FALSE),
           PlotText(Sum(x, Quot(barWidth, Two)),
                    Sum(Sum(g.margin.top, g.plotH), Dec(15, 0)), "middle",
                    g.bars[i].x, << >>) >>
        \o (IF Less(Sum(g.yMin, Dec(5, 0)), g.bars[i].y)
            THEN << PlotText(Sum(x, Quot(barWidth, Two)),
                             Diff(Sum(g.margin.top, barH), Dec(5, 0)),
                             "middle", "", toFixed(g.bars[i].y, 1)) >>
            ELSE << >>)

\* the legend of the bar plot, laid out from the right: last item first
RECURSIVE BarLegend(_, _, _)
BarLegend(g, i, legendX) ==
    IF i < 1 THEN << >>
    ELSE << PlotShape("rect",
                      <<Diff(legendX,
                             Dec(Len(g.legendItems[i].label) * 6 + 20, 0)),
                        Sum(g.margin.top, Dec(5, 0)), Dec(12, 0), Dec(12, 0)>>,
                      g.legendItems[i].color, One, FALSE),
            PlotText(Sum(Diff(legendX,
                              Dec(Len(g.legendItems[i].label) * 6 + 20, 0)),
                         Dec(15, 0)),
                     Sum(g.margin.top, Dec(15, 0)), "start",
                     g.legendItems[i].label, << >>) >>
         \o BarLegend(g, i - 1,
                      Diff(legendX,
                           Dec(Len(g.legendItems[i].label) * 6 + 20, 0)))

\* BarGraph.toSVG()
Bar_toSVG(g) ==
    LET slot == Quot(g.plotW, Dec(Len(g.bars), 0))
    IN  PlotOpen(g)
        \o BarGrid(g, g.yMax)
        \o Flatten([i \in DOMAIN g.bars |->
                      Bar(g, i, slot, Diff(slot, Dec(4, 0)))])
        \o << PlotText(Diff(g.margin.left, Dec(35, 0)),
                       Sum(g.margin.top, Quot(g.plotH, Two)), "middle",
                       g.yLabel, << >>) >>
        \o (IF g.xLabel # ""
            THEN << PlotText(Sum(g.margin.left, Quot(g.plotW, Two)),
                             Diff(g.height, Dec(5, 0)), "middle", g.xLabel,
                             << >>) >>
            ELSE << >>)
        \o BarLegend(g, Len(g.legendItems),
                     Diff(Sum(g.margin.left, g.plotW), Ten))
        \o << SvgClose >>

(* ------------------------------ the machine ---------------------------- *)

MinExp == -MaxExp

\* values a calculator passes to the rounders
Resistances == { Dec(m, e) : m \in (-MaxNeg)..MaxMant, e \in MinExp..MaxExp }

Capacitances == { Dec(m, e - 12) : m \in (-MaxNeg)..MaxMant, e \in MinExp..MaxExp }

NoDesign == [fn |-> "none"]

\* no plot has been built
NoPlot == [class |-> "none"]

\* no call has returned
NoOutput == [threw |-> FALSE, value |-> "none"]

Init ==
    /\ fn = "none"
    /\ value = Zero
    /\ rounded = Zero
    /\ design = NoDesign
    /\ stages = Arr(<< >>)
    /\ sch = Schematic(500, 300)
    /\ plot = NoPlot
    /\ output = NoOutput
    /\ renders = 0

CallRoundToE24 ==
    \E v \in Resistances :
        /\ fn = "none"
        /\ fn' = "roundToE24"
        /\ value' = v
        /\ rounded' = roundToE24(v)
        /\ UNCHANGED <<design, stages, sch, plot, output, renders>>

CallRoundCap ==
    \E v \in Capacitances :
        /\ fn = "none"
        /\ fn' = "roundCap"
        /\ value' = v
        /\ rounded' = roundCap(v)
        /\ UNCHANGED <<design, stages, sch, plot, output, renders>>

\* the call returns to the calculator page: its frame is discarded
Return ==
    /\ fn # "none"
    /\ fn' = "none"
    /\ value' = Zero
    /\ rounded' = Zero
    /\ design' = NoDesign
    /\ stages' = Arr(<< >>)
    /\ UNCHANGED <<sch, plot, output, renders>>

\* the inputs of the filter calculators
FilterTypes == {"lowpass", "highpass"}

Orders == 0..MaxOrder

Cutoffs == { Dec(100, 0), Dec(1, 3), Dec(22, 2) }

StageCaps == { Dec(1, -8), Dec(47, -9), Dec(1, -7) }

Ripples == { Dec(5, -1), Dec(1, 0), Dec(3, 0) }

CallButterworthFilter ==
    \E type \in FilterTypes, order \in Orders, fc \in Cutoffs, C \in StageCaps :
        /\ fn = "none"
        /\ fn' = "butterworthFilter"
        /\ design' = [fn |-> "butterworthFilter", type |-> type,
                      order |-> order, fc |-> fc, C |-> C]
        /\ stages' = butterworthFilter(type, order, fc, C)
        /\ UNCHANGED <<value, rounded, sch, plot, output, renders>>

CallChebyshevFilter ==
    \E type \in FilterTypes, order \in Orders \ {0}, fc \in Cutoffs,
       C \in StageCaps, rippleDb \in Ripples :
        /\ fn = "none"
        /\ fn' = "chebyshevFilter"
        /\ design' = [fn |-> "chebyshevFilter", type |-> type,
                      order |-> order, fc |-> fc, C |-> C,
                      rippleDb |-> rippleDb]
        /\ stages' = chebyshevFilter(type, order, fc, C, rippleDb)
        /\ UNCHANGED <<value, rounded, sch, plot, output, renders>>

Next == CallRoundToE24 \/ CallRoundCap \/ Return

Spec == Init /\ [][Next]_vars

FilterNext == CallButterworthFilter \/ CallChebyshevFilter \/ Return

FilterSpec == Init /\ [][FilterNext]_vars

(* ------------------------- the schematic builder ----------------------- *)

NoOptions == << >>

\* the calls of place made by a calculator page, and two with a type that
\* is no entry of the factory's table
Placements ==
    { [type |-> "opamp", id |-> "U1", x |-> 200, y |-> 100, options |-> NoOptions],
      [type |-> "resistor", id |-> "R1", x |-> 100, y |-> 80,
       options |-> [value |-> 1000]],
      [type |-> "resistor", id |-> "R1", x |-> 100, y |-> 80, options |-> NoOptions],
      [type |-> "capacitor", id |-> "R1", x |-> 120, y |-> 60,
       options |-> [value |-> 1]],
      [type |-> "ground", id |-> "G1", x |-> 100, y |-> 140, options |-> NoOptions],
      [type |-> "triode", id |-> "V1", x |-> 60, y |-> 60, options |-> NoOptions] }

\* the calls of wire: one of each routing style, one to a pin that a
\* resistor does not have and one to a name every object inherits
Wirings ==
    { [from |-> Ref(<<"R1", "b">>), to |-> Ref(<<"U1", "minus">>),
       options |-> NoOptions],
      [from |-> Ref(<<"U1", "plus">>), to |-> P(160, 140),
       options |-> [route |-> "h-v"]],
      [from |-> Ref(<<"R1", "a">>), to |-> Ref(<<"G1", "a">>),
       options |-> [route |-> "v-h"]],
      [from |-> Ref(<<"U1", "out">>), to |-> Ref(<<"R1", "b">>),
       options |-> [route |-> "h-v-h"]],
      [from |-> P(60, 80), to |-> Ref(<<"G1", "a">>),
       options |-> [route |-> "v-h-v", midY |-> 120]],
      [from |-> Ref(<<"R1", "c">>), to |-> P(60, 80), options |-> NoOptions],
      [from |-> Ref(<<"R1", "constructor">>), to |-> P(60, 80),
       options |-> NoOptions] }

Junctions == { P(160, 140) }

Captions == { [text |-> "Vout", x |-> 250, y |-> 95, options |-> [bold |-> TRUE]] }

Place ==
    \E p \in Placements :
        /\ fn' = "place"
        /\ value' = p
        /\ sch' = place(sch, p.type, p.id, p.x, p.y, p.options)
        /\ output' = IF createComponent(p.type, p.id, p.x, p.y, p.options).threw
                     THEN createComponent(p.type, p.id, p.x, p.y, p.options)
                     ELSE This
        /\ UNCHANGED <<rounded, design, stages, plot, renders>>

Wire ==
    \E w \in Wirings :
        /\ Len(sch.wires) < MaxWires
        /\ fn' = "wire"
        /\ sch' = wire(sch, w.from, w.to, w.options)
        /\ output' = This
        /\ UNCHANGED <<value, rounded, design, stages, plot, renders>>

Node ==
    \E n \in Junctions :
        /\ Len(sch.nodes) < MaxNodes
        /\ fn' = "node"
        /\ sch' = node(sch, n.x, n.y)
        /\ output' = This
        /\ UNCHANGED <<value, rounded, design, stages, plot, renders>>

Label ==
    \E c \in Captions :
        /\ Len(sch.labels) < MaxLabels
        /\ fn' = "label"
        /\ sch' = label(sch, c.text, c.x, c.y, c.options)
        /\ output' = This
        /\ UNCHANGED <<value, rounded, design, stages, plot, renders>>

ToSVG ==
    /\ fn' = "toSVG"
    /\ output' = toSVG(sch)
    /\ UNCHANGED <<value, rounded, design, stages, sch, plot, renders>>

ToFalstad ==
    /\ fn' = "toFalstad"
    /\ output' = toFalstad(sch)
    /\ UNCHANGED <<value, rounded, design, stages, sch, plot, renders>>

SchNext == Place \/ Wire \/ Node \/ Label \/ ToSVG \/ ToFalstad

SchSpec == Init /\ [][SchNext]_vars

\* every type name of the factory's table, a name that is none, and two
\* names that Object.prototype has
TypeNames == DOMAIN COMPONENT_TYPES \cup {"triode", "constructor", "toString"}

Anchors == { P(100, 80), P(200, 100) }

\* every pin name some component has, a name none has, and a name every
\* object inherits
PinNames ==
    { "a", "b", "k", "plus", "minus", "out", "vpos", "vneg", "in", "base",
      "collector", "emitter", "pos", "neg", "zz", "constructor" }

\* the references asked for: a pin of the placed component X1 or of X2,
\* which is never placed, a reference with no pin name, and a coordinate
PinRefs ==
    { Ref(<<id, name>>) : id \in {"X1", "X2"}, name \in PinNames }
    \cup { Ref(<<"X1">>), P(160, 140) }

PlaceEvery ==
    \E type \in TypeNames, at \in Anchors, flip \in BOOLEAN :
        LET options == IF flip THEN [flip |-> TRUE] ELSE NoOptions
            call == [type |-> type, id |-> "X1", x |-> at.x, y |-> at.y,
                     options |-> options]
        IN  /\ fn' = "place"
            /\ value' = call
            /\ sch' = place(sch, type, "X1", at.x, at.y, options)
            /\ output' = IF createComponent(type, "X1", at.x, at.y, options).threw
                         THEN createComponent(type, "X1", at.x, at.y, options)
                         ELSE This
            /\ UNCHANGED <<rounded, design, stages, plot, renders>>

Pin ==
    \E ref \in PinRefs :
        /\ fn' = "pin"
        /\ value' = ref
        /\ output' = pin(sch, ref)
        /\ UNCHANGED <<rounded, design, stages, sch, plot, renders>>

FalstadPin ==
    \E ref \in PinRefs :
        /\ fn' = "falstadPin"
        /\ value' = ref
        /\ output' = falstadPin(sch, ref)
        /\ UNCHANGED <<rounded, design, stages, sch, plot, renders>>

PinNext == PlaceEvery \/ Pin \/ FalstadPin

PinSpec == Init /\ [][PinNext]_vars

(* --------------------------- the plot builders ------------------------- *)

\* a point of a curve
Pt(x, y) == [x |-> x, y |-> y]

\* the options the plots are constructed with
GraphOptions ==
    { NoOptions,
      [xMin |-> Dec(10, 0), xMax |-> Dec(10000, 0),
       yMin |-> Dec(-40, 0), yMax |-> Dec(10, 0)],
      [yMin |-> Dec(-40, 0), yMax |-> Zero],
      [yMin |-> Dec(-10, 0), yMax |-> Dec(20, 0)] }

\* the curves of the response plot: gains in dB over frequencies in Hz
Responses ==
    { << >>,
      << Pt(Dec(10, 0), Dec(-3, 0)), Pt(Dec(2000, 0), Dec(-70, 0)),
         Pt(Dec(100000, 0), Dec(30, 0)) >> }

\* the curves of the waveform and transfer plots: volts over time or volts
Traces ==
    { << >>,
      << Pt(Zero, Dec(15, -1)), Pt(One, Two), Pt(Two, Dec(-3, 0)) >> }

CurveOptions == { NoOptions, [label |-> "out", dashed |-> TRUE] }

LineOptions == { NoOptions, [label |-> "ref", color |-> "#393"] }

Bars == { <<"1", Dec(-20, 0)>>, <<"2", Dec(-70, 0)>>, <<"3", Dec(5, 0)>> }

\* the plot after construction by one of the four builders, design being
\* the constructor call
PlotInit ==
    /\ fn = "none"
    /\ value = Zero
    /\ rounded = Zero
    /\ stages = Arr(<< >>)
    /\ sch = Schematic(500, 300)
    /\ \/ \E o \in GraphOptions :
             /\ design = [fn |-> "Graph", options |-> o]
             /\ plot = Graph(o)
       \/ \E o \in { NoOptions, [xLabel |-> "t", yUnit |-> "A"] } :
             /\ design = [fn |-> "WaveformGraph", options |-> o]
             /\ plot = WaveformGraph(o)
       \/ /\ design = [fn |-> "TransferGraph", options |-> NoOptions]
          /\ plot = TransferGraph(NoOptions)
       \/ \E o \in { NoOptions, [yMin |-> Dec(-80, 0), xLabel |-> "n"] } :
             /\ design = [fn |-> "BarGraph", options |-> o]
             /\ plot = BarGraph(o)
    /\ output = NoOutput
    /\ renders = 0

\* what every accumulating call leaves: it returns this
Added(name) ==
    /\ fn' = name
    /\ output' = This
    /\ renders' = 0
    /\ UNCHANGED <<value, rounded, design, stages, sch>>

\* what every toSVG call leaves: it returns the text
Rendered(svg) ==
    /\ renders < MaxRenders
    /\ fn' = "toSVG"
    /\ output' = Returned(svg)
    /\ renders' = renders + 1
    /\ UNCHANGED <<value, rounded, design, stages, sch>>

\* Graph.addCurve(points, options)
GraphAddCurve ==
    /\ plot.class = "Graph"
    /\ Len(plot.curves) < MaxCurves
    /\ \E points \in Responses, options \in CurveOptions :
          plot' = [plot EXCEPT
                     !.curves = Append(@, Curve(points, options, "#2266cc")),
                     !.legendItems =
                         IF OrStr(options, "label", "") # ""
                         THEN Append(@, LegendItem(options.label,
                                         OrStr(options, "color", "#2266cc"),
                                         OrFlag(options, "dashed")))
                         ELSE @]
    /\ Added("addCurve")

\* Graph.addHLine(y, options)
GraphAddHLine ==
    /\ plot.class = "Graph"
    /\ Len(plot.hLines) < MaxLines
    /\ \E options \in LineOptions :
          plot' = [plot EXCEPT
                     !.hLines = Append(@, RefLine(Dec(-3, 0), options, "#f88")),
                     !.legendItems =
                         IF OrStr(options, "label", "") # ""
                         THEN Append(@, LegendItem(options.label,
                                         OrStr(options, "color", "#f88"), TRUE))
                         ELSE @]
    /\ Added("addHLine")

\* Graph.addVLine(x, options)
GraphAddVLine ==
    /\ plot.class = "Graph"
    /\ Len(plot.vLines) < MaxLines
    /\ \E options \in {NoOptions} :
          plot' = [plot EXCEPT
                     !.vLines = Append(@, RefLine(Dec(1000, 0), options, "#88f")),
                     !.legendItems =
                         IF OrStr(options, "label", "") # ""
                         THEN Append(@, LegendItem(options.label,
                                         OrStr(options, "color", "#88f"), TRUE))
                         ELSE @]
    /\ Added("addVLine")

\* Graph.toSVG()
GraphToSVG ==
    /\ plot.class = "Graph"
    /\ Rendered(Graph_toSVG(plot))
    /\ UNCHANGED plot

\* WaveformGraph.addCurve(points, options)
WaveformAddCurve ==
    /\ plot.class = "WaveformGraph"
    /\ Len(plot.curves) < MaxCurves
    /\ \E points \in Traces, options \in CurveOptions :
          plot' = [plot EXCEPT
                     !.curves = Append(@, Curve(points, options, "#2266cc")),
                     !.legendItems =
                         IF OrStr(options, "label", "") # ""
                         THEN Append(@, LegendItem(options.label,
                                         OrStr(options, "color", "#2266cc"),
                                         OrFlag(options, "dashed")))
                         ELSE @]
    /\ Added("addCurve")

\* WaveformGraph.addHLine(y, options): no legend item
WaveformAddHLine ==
    /\ plot.class = "WaveformGraph"
    /\ Len(plot.hLines) < MaxLines
    /\ \E y \in {Dec(5, 0), Dec(-1, 0)}, options \in LineOptions :
          plot' = [plot EXCEPT
                     !.hLines = Append(@, RefLine(y, options, "#c66"))]
    /\ Added("addHLine")

\* WaveformGraph.toSVG() keeping the scale it computed in the model
WaveformToSVG_keepingScale ==
    /\ plot.class = "WaveformGraph"
    /\ Rendered(Waveform_toSVG(plot))
    /\ plot' = Waveform_range(plot) @@ plot

\* WaveformGraph.toSVG()
WaveformToSVG ==
    /\ plot.class = "WaveformGraph"
    /\ Rendered(Waveform_toSVG(plot))
    /\ UNCHANGED plot

\* TransferGraph.addCurve(points, options)
TransferAddCurve ==
    /\ plot.class = "TransferGraph"
    /\ Len(plot.curves) < MaxCurves
    /\ \E points \in Traces, options \in CurveOptions :
          plot' = [plot EXCEPT
                     !.curves = Append(@, Curve(points, options, "#c33")),
                     !.legendItems =
                         IF OrStr(options, "label", "") # ""
                         THEN Append(@, LegendItem(options.label,
                                         OrStr(options, "color", "#c33"),
                                         OrFlag(options, "dashed")))
                         ELSE @]
    /\ Added("addCurve")

\* TransferGraph.addUnityLine(): sets the flag (the constructor leaves it
\* undefined) and adds a legend item on every call
TransferAddUnityLine ==
    /\ plot.class = "TransferGraph"
    /\ Len(plot.legendItems) < MaxCurves + MaxLines
    /\ plot' = [_unityLine |-> TRUE]
               @@ [plot EXCEPT !.legendItems =
                      Append(@, LegendItem("Linear", "#aaa", TRUE))]
    /\ Added("addUnityLine")

\* TransferGraph.toSVG()
TransferToSVG ==
    /\ plot.class = "TransferGraph"
    /\ Rendered(Transfer_toSVG(plot))
    /\ UNCHANGED plot

\* BarGraph.addBar(x, y, options)
BarAddBar ==
    /\ plot.class = "BarGraph"
    /\ Len(plot.bars) < MaxBars
    /\ \E bar \in Bars, options \in {NoOptions, [color |-> "#c33"]} :
          plot' = [plot EXCEPT
                     !.bars = Append(@, [x |-> bar[1], y |-> bar[2],
                                         color |-> OrStr(options, "color",
                                                         "#2266cc"),
                                         label |-> OrStr(options, "label", "")])]
    /\ Added("addBar")

\* BarGraph.addLegend(label, color)
BarAddLegend ==
    /\ plot.class = "BarGraph"
    /\ Len(plot.legendItems) < MaxLines
    /\ \E item \in { <<"odd", "#2266cc">>, <<"even", "#c33">> } :
          plot' = [plot EXCEPT
                     !.legendItems = Append(@, [label |-> item[1],
                                                color |-> item[2]])]
    /\ Added("addLegend")

\* BarGraph.toSVG()
BarToSVG ==
    /\ plot.class = "BarGraph"
    /\ Rendered(Bar_toSVG(plot))
    /\ UNCHANGED plot

PlotNext ==
    \/ GraphAddCurve \/ GraphAddHLine \/ GraphAddVLine \/ GraphToSVG
    \/ WaveformAddCurve \/ WaveformAddHLine \/ WaveformToSVG
    \/ TransferAddCurve \/ TransferAddUnityLine \/ TransferToSVG
    \/ BarAddBar \/ BarAddLegend \/ BarToSVG

PlotSpec == PlotInit /\ [][PlotNext]_vars

\* the calls of generateResponseCurve: a range of whole decades, one of the
\* magnitude functions, from 1 to MaxPoints for numPoints
ResponseCalls ==
    { [fn |-> "generateResponseCurve", fMin |-> PowTen(lo), fMax |-> PowTen(hi),
       magFn |-> name,
       options |-> [numPoints |-> Dec(n, 0), normalize |-> normalize]] :
        lo \in 0..2, hi \in 3..4, name \in {"flat", "slope", "silent"},
        n \in 1..MaxPoints, normalize \in BOOLEAN }

CallGenerateResponseCurve ==
    \E call \in ResponseCalls :
        /\ fn = "none"
        /\ fn' = "generateResponseCurve"
        /\ design' = call
        /\ output' = Returned(generateResponseCurve(call.fMin, call.fMax,
                                                    call.magFn, call.options))
        /\ UNCHANGED <<value, rounded, stages, sch, plot, renders>>

CurveNext == CallGenerateResponseCurve \/ Return

CurveSpec == Init /\ [][CurveNext]_vars

(* ------------------------------ properties ----------------------------- *)

E24Set == { E24[i] : i \in 1..Len(E24) }

\* the capacitor series entries with mantissa <= 10
CapMantissas == { Dec(10, -1), Dec(15, -1), Dec(22, -1), Dec(33, -1),
                  Dec(47, -1), Dec(68, -1), Ten }

\* 10^floor(log10(v)) of a positive v, read off its digits
DecadeOf(v) == Dec(1, NumDigits(v.m) + v.e - 1)

\* |a - b|
Dist(a, b) == AbsD(SubX(a, b))

\* C1: for every positive x, roundToE24(x) is positive and its mantissa
\* normalized to the decade of x is one of the 24 E24 entries or exactly 10
\* (so the result is <= 0 only when x <= 0)
C1_MantissaInSeries ==
    (fn = "roundToE24" /\ value.m > 0) =>
        /\ rounded.m > 0
        /\ \E c \in E24Set \cup {Ten} : rounded = MulX(c, DecadeOf(value))

\* a value in the upper half of the gap between 9.1 and 10 of the decade 10..100
C1_Witness ==
    /\ fn = "roundToE24"
    /\ value = Dec(97, 0)
    /\ rounded = Dec(100, 0)

C3_NonPositiveGivesZero ==
    (fn \in {"roundToE24", "roundCap"} /\ value.m <= 0) => (rounded = Zero)

C3_Witness ==
    /\ fn = "roundCap"
    /\ value.m < 0
    /\ rounded = Zero

C5_ButterworthTableOrder ==
    (fn = "butterworthFilter" /\ design.order \in {2, 4, 6, 8}) =>
        /\ ~stages.null
        /\ Len(stages.items) = design.order \div 2
        /\ \A i \in 1..Len(stages.items) :
              /\ stages.items[i].targetQ = BUTTERWORTH_Q[design.order][i]
              /\ stages.items[i].stageNum = i
        /\ (design.order = 4) =>
              /\ stages.items[1].targetQ = Dec(5412, -4)
              /\ stages.items[2].targetQ = Dec(13065, -4)

C5_Witness ==
    /\ fn = "butterworthFilter"
    /\ design.order = 4
    /\ Len(stages.items) = 2
    /\ stages.items[2].targetQ = Dec(13065, -4)

\* C6: for every order outside the Butterworth table, butterworthFilter
\* returns the null result
C6_UnsupportedOrderIsNull ==
    (fn = "butterworthFilter" /\ design.order \notin {2, 4, 6, 8}) =>
        (stages = Null)

C6_Witness ==
    /\ fn = "butterworthFilter"
    /\ design.order = 3
    /\ stages.null

C8_ChebyshevSortedByQ ==
    (fn = "chebyshevFilter") =>
        \A i \in 1..(Len(stages.items) - 1) :
            Leq(stages.items[i].Q, stages.items[i + 1].Q)

\* two stages of different achieved Q, the one of the outermost pole last
C8_Witness ==
    /\ fn = "chebyshevFilter"
    /\ design.order = 4
    /\ Less(stages.items[1].Q, stages.items[2].Q)
    /\ Less(stages.items[1].w0, stages.items[2].w0)

\* C9: for every stage of either designer, fcActual = 1/(2*pi*R*C) with the
\* stage's own reported rounded resistor R and capacitance C
C9_ActualCutoffFromRounded ==
    (fn \in {"butterworthFilter", "chebyshevFilter"}) =>
        \A i \in 1..Len(stages.items) :
            LET st == stages.items[i] IN
            st.fcActual = Div(One, Mul(Mul(Mul(Two, Pi), st.R), st.C))

\* a stage whose rounded resistor moved the cutoff away from the request
C9_Witness ==
    /\ fn = "butterworthFilter"
    /\ design.fc = Dec(1, 3)
    /\ Len(stages.items) >= 1
    /\ stages.items[1].R = Dec(16, 3)
    /\ stages.items[1].fcActual = Dec(995, 0)

\* C10: every realization returned (Butterworth for a supported order,
\* Chebyshev for any order >= 1) has ceil(order/2) stages
C10_LengthIsCeilHalfOrder ==
    (fn \in {"butterworthFilter", "chebyshevFilter"} /\ ~stages.null) =>
        (Len(stages.items) = (design.order + 1) \div 2)

\* the component a call of place has just set
Placed == MapGet(sch.components, value.id)

\* the pin names a component declares: the own properties of its table
Declares(comp, name) == "pins" \in DOMAIN comp /\ name \in DOMAIN comp.pins

\* C13: after place(type, id, x, y) of any type of the factory's table,
\* pin("id.name") of every pin name the type declares returns exactly
\* (x + offset.x, y + offset.y); the inputs of an op-amp sit at y offset +20
\* (plus) and -20 (minus) and change places when flipped, the anode of a
\* diode sits before the centre and behind it when flipped; a coordinate
\* object given as the reference is returned as it is
C13_PinIsAnchorPlusOffset ==
    /\ (fn = "place" /\ ~output.threw /\ value.type \in DOMAIN COMPONENT_TYPES) =>
          /\ \A name \in DOMAIN Placed.pins :
                pin(sch, Ref(<<value.id, name>>)) =
                    Returned(P(value.x + Placed.pins[name].x,
                               value.y + Placed.pins[name].y))
          /\ (Placed.class = "OpAmp") =>
                /\ pin(sch, Ref(<<value.id, "plus">>)).value =
                      P(value.x - 40,
                        value.y + (IF "flip" \in DOMAIN value.options THEN -20 ELSE 20))
                /\ pin(sch, Ref(<<value.id, "minus">>)).value =
                      P(value.x - 40,
                        value.y + (IF "flip" \in DOMAIN value.options THEN 20 ELSE -20))
          /\ (Placed.class = "DiodeH") =>
                pin(sch, Ref(<<value.id, "a">>)).value =
                    P(value.x + (IF "flip" \in DOMAIN value.options THEN 15 ELSE -15),
                      value.y)
          /\ (Placed.class = "DiodeV") =>
                pin(sch, Ref(<<value.id, "a">>)).value =
                    P(value.x,
                      value.y + (IF "flip" \in DOMAIN value.options THEN 15 ELSE -15))
    /\ (fn = "pin" /\ ~IsObject(value) /\ MapHas(sch.components, Part(value, 1))) =>
          LET comp == MapGet(sch.components, Part(value, 1))
          IN  Declares(comp, Part(value, 2)) =>
                 output = Returned(P(comp.x + comp.pins[Part(value, 2)].x,
                                     comp.y + comp.pins[Part(value, 2)].y))
    /\ (fn = "pin" /\ IsObject(value)) => (output = Returned(value))

\* the inverting input of a flipped op-amp placed at (100, 80)
C13_Witness ==
    /\ fn = "pin"
    /\ value = Ref(<<"X1", "minus">>)
    /\ MapHas(sch.components, "X1")
    /\ MapGet(sch.components, "X1").class = "OpAmp"
    /\ MapGet(sch.components, "X1").flip
    /\ output = Returned(P(60, 100))

\* C14: pin and falstadPin throw for a component id that was never placed
\* and for a pin name the component's type does not declare, and place
\* throws for a type name that is no entry of the factory's table
C14_StructuralErrorsThrow ==
    /\ (fn \in {"pin", "falstadPin"} /\ ~IsObject(value)) =>
          /\ ~MapHas(sch.components, Part(value, 1)) => output.threw
          /\ (MapHas(sch.components, Part(value, 1))
              /\ ~Declares(MapGet(sch.components, Part(value, 1)), Part(value, 2)))
                => output.threw
    /\ (fn = "place" /\ value.type \notin DOMAIN COMPONENT_TYPES) => output.threw

\* C20: toSVG resolves the end of a wire with the diagram's table and
\* toFalstad with the simulator's table where the component has one, else
\* with the diagram's; the inputs of an op-amp are at y offset +/-20 in the
\* diagram and +/-16 in the simulator's text; for every other type pin and
\* falstadPin return the same coordinate
C20_TablePerConsumer ==
    (fn = "place" /\ ~output.threw /\ value.type \in DOMAIN COMPONENT_TYPES) =>
        \A name \in DOMAIN Placed.pins :
            LET ref == Ref(<<value.id, name>>)
                wired == wire(sch, ref, P(0, 0), NoOptions)
                sim == IF "falstadPins" \in DOMAIN Placed
                       THEN Placed.falstadPins ELSE Placed.pins
            IN  /\ toSVG(wired).value[2] =
                      Shape("line", <<Placed.x + Placed.pins[name].x,
                                      Placed.y + Placed.pins[name].y, 0, 0>>, FALSE)
                /\ toFalstad(wired).value[Len(toFalstad(wired).value)] =
                      FalstadLine("w", <<Placed.x + sim[name].x,
                                         Placed.y + sim[name].y, 0, 0, 0>>)
                /\ (Placed.class # "OpAmp") =>
                      (pin(sch, ref) = falstadPin(sch, ref))
                /\ (Placed.class = "OpAmp" /\ name \in {"plus", "minus"}) =>
                      /\ Abs(pin(sch, ref).value.y - Placed.y) = 20
                      /\ Abs(falstadPin(sch, ref).value.y - Placed.y) = 16
                      /\ pin(sch, ref).value.x = falstadPin(sch, ref).value.x

\* the non-inverting input of an op-amp placed at (200, 100), asked of the
\* simulator's table
C20_Witness ==
    /\ fn = "falstadPin"
    /\ value = Ref(<<"X1", "plus">>)
    /\ MapHas(sch.components, "X1")
    /\ MapGet(sch.components, "X1").class = "OpAmp"
    /\ ~MapGet(sch.components, "X1").flip
    /\ output = Returned(P(160, 116))

\* an end of a wire that names a component not placed or a pin name the
\* component's type does not declare
Unresolvable(s, ref) ==
    /\ ~IsObject(ref)
    /\ \/ ~MapHas(s.components, Part(ref, 1))
       \/ ~Declares(MapGet(s.components, Part(ref, 1)), Part(ref, 2))

\* C15: when a wire of the schematic has an unresolvable end, whatever its
\* routing style, toSVG and toFalstad throw and return no output
C15_UnresolvableWireThrows ==
    (/\ fn \in {"toSVG", "toFalstad"}
     /\ \E i \in DOMAIN sch.wires :
           \/ Unresolvable(sch, sch.wires[i].from)
           \/ Unresolvable(sch, sch.wires[i].to))
        => output.threw

\* the classes of the placed components
Classes == { sch.components[i].value.class : i \in DOMAIN sch.components }

\* the tags of the lines of an export
Tags(lines) == [i \in DOMAIN lines |-> lines[i].tag]

\* C16: the export of a circuit of exactly a ground, one resistor and one
\* wire (drawn direct between points that resolve) is the header line and
\* three lines tagged g, r (in placement order) and w
C16_GroundResistorWire ==
    (/\ fn = "toFalstad"
     /\ Len(sch.components) = 2
     /\ Classes = {"Ground", "ResistorH"}
     /\ Len(sch.wires) = 1
     /\ OrStr(sch.wires[1].options, "route", "direct") = "direct"
     /\ ~output.threw)
        => /\ Len(output.value) = 4
           /\ Tags(output.value) \in { <<"$", "g", "r", "w">>, <<"$", "r", "g", "w">> }

\* C18: the output of toSVG is, after the opening element, the drawings of
\* all wires in the order added, then of all components in the order
\* placed, then all junction nodes, then all labels, whatever the order of
\* the calls that built the schematic
C18_FixedZOrder ==
    (fn = "toSVG" /\ ~output.threw) =>
        output.value =
            << SvgOpen(sch) >>
            \o Flatten([i \in DOMAIN sch.wires |->
                          WirePath(pin(sch, sch.wires[i].from).value,
                                   pin(sch, sch.wires[i].to).value,
                                   sch.wires[i].options)])
            \o Flatten([i \in DOMAIN sch.components |->
                          render(sch.components[i].value)])
            \o [i \in DOMAIN sch.nodes |-> DrawNode(sch.nodes[i])]
            \o [i \in DOMAIN sch.labels |-> DrawLabel(sch.labels[i])]
            \o << SvgClose >>

\* a diagram with something in each of the four layers
C18_Witness ==
    /\ fn = "toSVG"
    /\ ~output.threw
    /\ Len(sch.wires) = 2
    /\ Len(sch.components) = 3
    /\ Len(sch.nodes) = 1
    /\ Len(sch.labels) = 1
    /\ output.value[2].tag = "line"
    /\ output.value[Len(output.value) - 1].tag = "text"

\* C19: two calls of different kinds (place, wire, node, label) made one
\* after the other leave the same schematic in either order, so any two
\* interleavings that keep the order of the calls of each kind give the
\* same toSVG output and the same toFalstad output (both are computed from
\* the schematic alone); a wire may be added before the components its
\* ends name
C19_CallsCommute ==
    /\ \A p \in Placements, w \in Wirings :
          /\ wire(place(sch, p.type, p.id, p.x, p.y, p.options),
                  w.from, w.to, w.options)
               = place(wire(sch, w.from, w.to, w.options),
                       p.type, p.id, p.x, p.y, p.options)
          /\ (fn = "wire" /\ sch.components = << >>) =>
                toSVG(wire(place(sch, p.type, p.id, p.x, p.y, p.options),
                           w.from, w.to, w.options))
                  = toSVG(place(wire(sch, w.from, w.to, w.options),
                                p.type, p.id, p.x, p.y, p.options))
    /\ \A p \in Placements, n \in Junctions :
          node(place(sch, p.type, p.id, p.x, p.y, p.options), n.x, n.y)
            = place(node(sch, n.x, n.y), p.type, p.id, p.x, p.y, p.options)
    /\ \A p \in Placements, c \in Captions :
          label(place(sch, p.type, p.id, p.x, p.y, p.options),
                c.text, c.x, c.y, c.options)
            = place(label(sch, c.text, c.x, c.y, c.options),
                    p.type, p.id, p.x, p.y, p.options)
    /\ \A w \in Wirings, n \in Junctions :
          node(wire(sch, w.from, w.to, w.options), n.x, n.y)
            = wire(node(sch, n.x, n.y), w.from, w.to, w.options)
    /\ \A w \in Wirings, c \in Captions :
          label(wire(sch, w.from, w.to, w.options), c.text, c.x, c.y, c.options)
            = wire(label(sch, c.text, c.x, c.y, c.options),
                   w.from, w.to, w.options)
    /\ \A n \in Junctions, c \in Captions :
          label(node(sch, n.x, n.y), c.text, c.x, c.y, c.options)
            = node(label(sch, c.text, c.x, c.y, c.options), n.x, n.y)

\* a wire between two components, added when neither is placed
C19_Witness ==
    /\ fn = "wire"
    /\ sch.components = << >>
    /\ Len(sch.wires) = 1
    /\ sch.wires[1].from = Ref(<<"R1", "b">>)
    /\ sch.wires[1].to = Ref(<<"U1", "minus">>)

\* C11: for each of the four plot builders, toSVG leaves every field of the
\* model as it was, and a toSVG that follows a toSVG with no add call in
\* between returns the same text
C11_RenderIsPure ==
    [][(fn' = "toSVG") =>
          /\ plot' = plot
          /\ (fn = "toSVG" => output' = output)]_vars

\* a waveform plot with curves and a reference line, rendered twice in a row
C11_Witness ==
    /\ fn = "toSVG"
    /\ renders = 2
    /\ plot.class = "WaveformGraph"
    /\ Len(plot.curves) = 2
    /\ Len(plot.hLines) = 1
    /\ Len(output.value) > 6

\* every y the waveform plot holds: of the points of its curves and of its
\* reference lines
WaveformValues ==
    UNION { { plot.curves[c].points[i].y :
                i \in DOMAIN plot.curves[c].points } :
            c \in DOMAIN plot.curves }
    \cup { plot.hLines[i].at : i \in DOMAIN plot.hLines }

\* 1.1 times the largest absolute value of the waveform plot (Infinity when
\* it holds no value)
WaveformTop ==
    IF WaveformValues = {} THEN Infinity
    ELSE Times(AbsD(CHOOSE v \in WaveformValues :
                       \A w \in WaveformValues : Leq(AbsD(w), AbsD(v))),
               Dec(11, -1))

\* C12: the y range WaveformGraph.toSVG renders with is symmetric about
\* zero, yMin = -yMax, and yMax is 1.1 times the larger of |min| and |max|
\* over all curve points and all reference lines: the axis labels carry
\* these two bounds and the zero line lies at mid-height
C12_SymmetricRange ==
    (plot.class = "WaveformGraph" /\ fn = "toSVG") =>
        /\ Waveform_range(plot).yMax = WaveformTop
        /\ Waveform_range(plot).yMin = Neg(Waveform_range(plot).yMax)
        /\ \E i \in DOMAIN output.value :
              /\ output.value[i].tag = "text"
              /\ output.value[i].n = [plus |-> TRUE] @@ toFixed(WaveformTop, 2)
        /\ \E i \in DOMAIN output.value :
              /\ output.value[i].tag = "text"
              /\ output.value[i].n = toFixed(Neg(WaveformTop), 2)
        /\ (~IsInf(WaveformTop) /\ WaveformTop # Zero) =>
              output.value[3].at[2]
                = Sum(plot.margin.top, Quot(plot.plotH, Two))

\* a rendered waveform whose reference line lies beyond every curve point
C12_Witness ==
    /\ plot.class = "WaveformGraph"
    /\ fn = "toSVG"
    /\ Len(plot.curves) = 1
    /\ Len(plot.curves[1].points) = 3
    /\ Len(plot.hLines) = 1
    /\ plot.hLines[1].at = Dec(5, 0)
    /\ Waveform_range(plot).yMax = Dec(55, -1)
    /\ Waveform_range(plot).yMin = Dec(-55, -1)

IsPath(element) == element.tag = "path"

HasPoints(curve) == curve.points # << >>

\* y brought into the y range the response plot holds
Clamped(y) ==
    IF Less(y, plot.yMin) THEN plot.yMin
    ELSE IF Less(plot.yMax, y) THEN plot.yMax
    ELSE y

IsWireLine(line) == line.tag = "w"

\* C21: in the export every wire whose ends resolve is emitted as wire
\* lines that connect its two ends: one line from-to when direct, two lines
\* meeting at (to.x, from.y) when h-v, two lines meeting at (from.x, to.y)
\* when v-h, and for a three-segment style at least a line leaving the
\* from end and a line reaching the to end
C21_EveryWireExported ==
    (fn = "toFalstad" /\ ~output.threw) =>
        \A i \in DOMAIN sch.wires :
            LET from == falstadPin(sch, sch.wires[i].from).value
                to == falstadPin(sch, sch.wires[i].to).value
                route == OrStr(sch.wires[i].options, "route", "direct")
                ws == SelectSeq(output.value, IsWireLine)
            IN  CASE route = "direct" ->
                       \E k \in DOMAIN ws :
                           ws[k].args = <<from.x, from.y, to.x, to.y, 0>>
                  [] route = "h-v" ->
                       \E k \in DOMAIN ws :
                           /\ k + 1 \in DOMAIN ws
                           /\ ws[k].args = <<from.x, from.y, to.x, from.y, 0>>
                           /\ ws[k + 1].args = <<to.x, from.y, to.x, to.y, 0>>
                  [] route = "v-h" ->
                       \E k \in DOMAIN ws :
                           /\ k + 1 \in DOMAIN ws
                           /\ ws[k].args = <<from.x, from.y, from.x, to.y, 0>>
                           /\ ws[k + 1].args = <<from.x, to.y, to.x, to.y, 0>>
                  [] OTHER ->
                       /\ \E k \in DOMAIN ws :
                             /\ ws[k].args[1] = from.x
                             /\ ws[k].args[2] = from.y
                       /\ \E k \in DOMAIN ws :
                             /\ ws[k].args[3] = to.x
                             /\ ws[k].args[4] = to.y

\* the ids of the placed components, in render and export order
Keys(s) == [i \in DOMAIN s.components |-> s.components[i].key]

\* C30: after every place call the schematic holds at most one component
\* per id; a place call with an id already placed leaves the number and the
\* order of the ids, the wires, the nodes and the labels as they were, puts
\* the new component (type, position, options) at the place of the earlier
\* one in the render and export order, and every pin of the id resolves
\* against the new component
C30_IdsAreUniqueKeys ==
    [][(fn' = "place" /\ ~output'.threw) =>
          /\ \A i, j \in DOMAIN sch'.components :
                sch'.components[i].key = sch'.components[j].key => i = j
          /\ MapGet(sch'.components, value'.id)
               = createComponent(value'.type, value'.id, value'.x, value'.y,
                                 value'.options).value
          /\ sch'.wires = sch.wires
          /\ sch'.nodes = sch.nodes
          /\ sch'.labels = sch.labels
          /\ MapHas(sch.components, value'.id) =>
                /\ Keys(sch') = Keys(sch)
                /\ \A i \in DOMAIN sch.components :
                      sch.components[i].key # value'.id
                          => sch'.components[i] = sch.components[i]
                /\ \A name \in DOMAIN MapGet(sch'.components, value'.id).pins :
                      pin(sch', Ref(<<value'.id, name>>))
                        = Returned(P(value'.x + MapGet(sch'.components,
                                                       value'.id).pins[name].x,
                                     value'.y + MapGet(sch'.components,
                                                       value'.id).pins[name].y))]_vars

\* R1, placed before U1 and wired to it, has just been placed again as a
\* capacitor at another position: it is still the first of two components
C30_Witness ==
    /\ fn = "place"
    /\ value.id = "R1"
    /\ value.type = "capacitor"
    /\ Keys(sch) = <<"R1", "U1">>
    /\ sch.components[1].value.class = "CapacitorH"
    /\ sch.components[1].value.x = 120
    /\ Len(sch.wires) = 1
    /\ sch.wires[1].from = Ref(<<"R1", "b">>)
    /\ pin(sch, Ref(<<"R1", "b">>)) = Returned(P(124, 60))

\* C26: every stage of a Chebyshev design equals, on each of the fields R,
\* C, K, Ra, Rb, fcActual and Q, the Butterworth stage build
\* sallenKeyStage(fc * w0, Q, C) at the cutoff scaled by the stage's w0
C26_ChebyshevStageIsSallenKey ==
    (fn = "chebyshevFilter") =>
        \A i \in DOMAIN stages.items :
            LET built == sallenKeyStage(Mul(design.fc, stages.items[i].w0),
                                        stages.items[i].targetQ, design.C)
            IN  \A f \in {"R", "C", "K", "Ra", "Rb", "fcActual", "Q"} :
                    stages.items[i][f] = built[f]

\* a Chebyshev design whose stage is scaled away from the passband edge: its
\* resistor differs from the one of a stage built at the edge itself
C26_Witness ==
    /\ fn = "chebyshevFilter"
    /\ design.order = 4
    /\ Len(stages.items) = 2
    /\ stages.items[1].w0 # One
    /\ stages.items[1].R
         # sallenKeyStage(design.fc, stages.items[1].targetQ, design.C).R

\* the gain resistor the stage's target Q asks for
IdealRb(stage) ==
    Mul(Sub(Sub(Three, Div(One, stage.targetQ)), One), Dec(10000, 0))

\* C27: every stage of a design reports Ra = 10000, Rb = the rounded value of
\* (3 - 1/targetQ - 1) * 10000 (0 when that is not positive), K = 1 + Rb/Ra
\* from these reported resistors (1 when Rb is 0) and Q = 1/(3 - K)
C27_GainFromRoundedResistors ==
    (fn \in {"butterworthFilter", "chebyshevFilter"} /\ ~stages.null) =>
        \A i \in DOMAIN stages.items :
            LET stage == stages.items[i]
            IN  /\ stage.Ra = Dec(10000, 0)
                /\ stage.Rb = IF Less(Zero, IdealRb(stage))
                              THEN roundToE24(IdealRb(stage)) ELSE Zero
                /\ stage.K = IF Less(Zero, stage.Rb)
                             THEN Add(One, Div(stage.Rb, stage.Ra)) ELSE One
                /\ stage.Q = Div(One, Sub(Three, stage.K))

\* a stage whose achieved gain and Q differ from the requested ones
C27_Witness ==
    /\ fn = "butterworthFilter"
    /\ design.order = 2
    /\ stages.items[1].Rb # IdealRb(stages.items[1])
    /\ stages.items[1].K # Sub(Three, Div(One, stages.items[1].targetQ))
    /\ stages.items[1].Q # stages.items[1].targetQ

\* C28: when the normalized mantissa lies exactly halfway between the two
\* candidates nearest to it, roundToE24 returns the lower one times the
\* decade; halfway between 9.1 and 10 (9.55) it returns 9.1 times the decade
C28_TiesGoDown ==
    (fn = "roundToE24" /\ value.m > 0) =>
        LET norm == Div(value, DecadeOf(value))
        IN  /\ \A a \in E24Set \cup {Ten} :
                  (\A c \in E24Set \cup {Ten} :
                      Leq(Dist(norm, a), Dist(norm, c)))
                      => \A b \in E24Set \cup {Ten} :
                            (Less(a, b) /\ Dist(norm, a) = Dist(norm, b))
                                => rounded = MulX(a, DecadeOf(value))
            /\ (norm = Dec(955, -2))
                  => rounded = MulX(Dec(91, -1), DecadeOf(value))

\* C29: every stage of a Butterworth design of order 2, 4, 6 or 8 and of a
\* Chebyshev design of order >= 2 reports a gain K with 1 <= K < 3 and a Q
\* that is finite and >= 0.5
C29_GainBelowThree ==
    (/\ fn \in {"butterworthFilter", "chebyshevFilter"}
     /\ ~stages.null
     /\ design.order >= 2) =>
        \A i \in DOMAIN stages.items :
            /\ Leq(One, stages.items[i].K)
            /\ Less(stages.items[i].K, Three)
            /\ ~IsInf(stages.items[i].Q)
            /\ Leq(Dec(5, -1), stages.items[i].Q)

\* a drawn bar: a rectangle hung from the top of the plot area
IsBar(el) ==
    /\ el.tag = "rect"
    /\ el.color # "#fafafa"
    /\ el.at[2] = plot.margin.top

\* the value label of a bar: a number written at the middle of the bar
IsValueLabel(el) == el.tag = "text" /\ el.anchor = "middle" /\ el.text = ""

\* C25: in every rendering of a bar plot, the height of each drawn bar lies
\* within [0, plot height], and every value label drawn lies inside the plot
\* area, between its top and its bottom edge
C25_BarsClampedLabelsInside ==
    (fn = "toSVG" /\ plot.class = "BarGraph") =>
        \A i \in DOMAIN output.value :
            /\ IsBar(output.value[i])
                  => /\ Leq(Zero, output.value[i].at[4])
                     /\ Leq(output.value[i].at[4], plot.plotH)
            /\ IsValueLabel(output.value[i])
                  => /\ Leq(plot.margin.top, output.value[i].at[2])
                     /\ Leq(output.value[i].at[2],
                            Sum(plot.margin.top, plot.plotH))

\* the axis bounds of the response plot with their defaults
AxisDefaults ==
    [xMin |-> One, xMax |-> Dec(100000, 0),
     yMin |-> Dec(-60, 0), yMax |-> Dec(20, 0)]

\* C22: the response plot holds, for each of xMin, xMax, yMin and yMax, the
\* value declared at construction, and the default only for a bound that was
\* not declared; these are the values its coordinate mapping, grid and
\* clamping read
C22_DeclaredRangesUsed ==
    (plot.class = "Graph") =>
        \A name \in DOMAIN AxisDefaults :
            plot[name] = IF name \in DOMAIN design.options
                         THEN design.options[name]
                         ELSE AxisDefaults[name]

\* C24: generateResponseCurve(fMin, fMax, magFn, {numPoints: N, normalize})
\* returns exactly N points, the first at fMin and the last at fMax, each
\* with y = 20 * log10 of the magnitude at its x; with normalize set and a
\* positive magnitude among the samples, no y exceeds 0 and some y is 0
C24_ExactlyNSamples ==
    (fn = "generateResponseCurve") =>
        /\ Dec(Len(output.value), 0) = design.options.numPoints
        /\ output.value[1].x = design.fMin
        /\ output.value[Len(output.value)].x = design.fMax
        /\ ~design.options.normalize
              => \A i \in DOMAIN output.value :
                    output.value[i].y
                        = Times(Dec(20, 0),
                                Log10(magFn(design.magFn, output.value[i].x)))
        /\ (/\ design.options.normalize
            /\ \E i \in DOMAIN output.value :
                  Less(Zero, magFn(design.magFn, output.value[i].x)))
              => /\ \A i \in DOMAIN output.value :
                       Leq(output.value[i].y, Zero)
                 /\ \E i \in DOMAIN output.value : output.value[i].y = Zero

\* the label of a horizontal grid line
IsGridLabel(el) == el.tag = "text" /\ el.anchor = "end"

\* the numbers 1, 2 and 5 times a power of ten
NiceSteps == { Dec(k, n) : k \in {1, 2, 5}, n \in (-2)..3 }

\* the steps between the horizontal grid lines of the rendering
GridSteps ==
    { Diff(SelectSeq(output.value, IsGridLabel)[i + 1].n,
           SelectSeq(output.value, IsGridLabel)[i].n) :
        i \in 1..(Len(SelectSeq(output.value, IsGridLabel)) - 1) }

\* C23 as stated: the step between the horizontal grid lines of a rendered
\* response plot is the number of the form 1, 2 or 5 times a power of ten
\* that is closest to an eighth of the y-range
C23_StepIsNearest ==
    (fn = "toSVG" /\ plot.class = "Graph") =>
        \A step \in GridSteps :
            /\ step \in NiceSteps
            /\ \A nice \in NiceSteps :
                  Leq(Dist(step, Quot(Diff(plot.yMax, plot.yMin), Dec(8, 0))),
                      Dist(nice, Quot(Diff(plot.yMax, plot.yMin), Dec(8, 0))))

\* C23: the step between the horizontal grid lines of a rendered response
\* plot is the greatest number of the form 1, 2 or 5 times a power of ten
\* that does not exceed an eighth of the y-range
C23_StepIsGreatestBelow ==
    (fn = "toSVG" /\ plot.class = "Graph") =>
        \A step \in GridSteps :
            /\ step \in NiceSteps
            /\ Leq(step, Quot(Diff(plot.yMax, plot.yMin), Dec(8, 0)))
            /\ \A nice \in NiceSteps :
                  Leq(nice, Quot(Diff(plot.yMax, plot.yMin), Dec(8, 0)))
                      => Leq(nice, step)

\* a response plot over -10..20 dB rendered with grid lines every 2 dB: an
\* eighth of the range is 3.75, nearer to 5 than to 2
C23_Witness ==
    /\ fn = "toSVG"
    /\ plot.class = "Graph"
    /\ Diff(plot.yMax, plot.yMin) = Dec(30, 0)
    /\ GridSteps = { Two }

====
